---- MODULE Spec2Model ----
(***************************************************************************)
(* Authentication gateway (alphab_logto): sliding-window rate limiter,     *)
(* rate-limiting middleware and route mounting, and the callback handler   *)
(* of the auth orchestrator.                                               *)
(***************************************************************************)
EXTENDS Integers, Sequences, FiniteSets, TLC

VARIABLES
    now,                  \* time.time(), in seconds
    requests_per_minute,  \* RateLimiter.requests_per_minute
    requests,             \* RateLimiter.requests: identifier -> list of timestamps
    calls,                \* history: per identifier, the is_rate_limited calls made, [t, ret]
    resetAt,              \* history: per identifier, Len(calls[id]) at the last reset covering it
    last,                 \* history: the last limiter call, with the mapping before it
    app,                  \* which application was started (its middleware and routes: Built)
    proc,                 \* the inbound requests, each with its position in the gate
    config,               \* LogtoAuthConfig: cors_origins, resource
    jar,                  \* the browser's code_verifier cookie
    inv,                  \* the last orchestrator invocation: arguments and outcome
    jwks_cache,           \* _jwks_cache: the cached key set
    jwks_cache_time,      \* _jwks_cache_time: when it was fetched
    keycalls,             \* the get_jwks calls, each with its position and what it saw
    managers,             \* the HttpClientManager objects created, each with its client
    pkce                  \* the PKCEUtils calls made, each with its argument and result

vars == <<now, requests_per_minute, requests, calls, resetAt, last, app, proc,
          config, jar, inv, jwks_cache, jwks_cache_time, keycalls, managers, pkce>>
gateVars == <<app, proc>>
authVars == <<config, jar, inv>>
keyVars == <<jwks_cache, jwks_cache_time, keycalls, managers>>

(***************************************************************************)
(* Bounds of the model.                                                    *)
(***************************************************************************)
MaxTime == 60
MaxCalls == 4
MaxThreshold == 2
MaxRequests == 2
MaxClock == 172800
MaxKeyCalls == 2

Hosts == {"ip1", "ip2"}
Unknown == "unknown"
Identifiers == Hosts \cup {Unknown}
TickSteps == {30, 60}
None == "None"

(***************************************************************************)
(* RateLimiter (utils/rate_limiter.py)                                     *)
(***************************************************************************)
Window == 60

\* defaultdict(list).__getitem__: a missing key reads as the empty list
Lookup(reqs, id) == IF id \in DOMAIN reqs THEN reqs[id] ELSE <<>>

\* mutant of Store: one list shared by all identifiers
StoreShared(reqs, id, w) == [k \in (DOMAIN reqs) \cup {id} |-> w]

\* self.requests[identifier] = w  (creates the key when it is missing)
Store(reqs, id, w) ==
    [k \in (DOMAIN reqs) \cup {id} |-> IF k = id THEN w ELSE reqs[k]]

\* mutant of Pruned: keeps the timestamp that is exactly 60 seconds old
PrunedInclusive(reqs, id, t) ==
    LET minute_ago == t - Window
    IN  SelectSeq(Lookup(reqs, id), LAMBDA x : x >= minute_ago)

\* mutant of Pruned: the window bound has the wrong sign
PrunedSignError(reqs, id, t) ==
    LET minute_ago == t + Window
    IN  SelectSeq(Lookup(reqs, id), LAMBDA x : x > minute_ago)

\* [t for t in self.requests[identifier] if t > minute_ago]
Pruned(reqs, id, t) ==
    LET minute_ago == t - Window
    IN  SelectSeq(Lookup(reqs, id), LAMBDA x : x > minute_ago)

\* mutant of OverLimit: off by one
OverLimitStrict(w, rpm) == Len(w) > rpm

\* len(self.requests[identifier]) >= self.requests_per_minute
OverLimit(w, rpm) == Len(w) >= rpm

\* return value of is_rate_limited(identifier) called at time t
IsRateLimitedRet(reqs, id, t, rpm) == OverLimit(Pruned(reqs, id, t), rpm)

\* self.requests after is_rate_limited(identifier) called at time t
IsRateLimitedState(reqs, id, t, rpm) ==
    LET w == Pruned(reqs, id, t)
    IN  IF OverLimit(w, rpm) THEN Store(reqs, id, w)
        ELSE Store(reqs, id, Append(w, t))

Max(a, b) == IF a >= b THEN a ELSE b

\* return value of get_remaining_requests(identifier) called at time t
GetRemainingRet(reqs, id, t, rpm) == Max(0, rpm - Len(Pruned(reqs, id, t)))

\* self.requests after get_remaining_requests(identifier) called at time t
GetRemainingState(reqs, id, t) == Store(reqs, id, Pruned(reqs, id, t))

\* mutant of ResetState: every reset clears the whole mapping
ResetStateAll(reqs, id) == <<>>

\* self.requests after reset(identifier)
ResetState(reqs, id) ==
    IF id = None THEN <<>> ELSE Store(reqs, id, <<>>)

TotalCalls ==
    LET RECURSIVE Sum(_)
        Sum(S) == IF S = {} THEN 0
                  ELSE LET h == CHOOSE h \in S : TRUE
                       IN  Len(calls[h]) + Sum(S \ {h})
    IN  Sum(DOMAIN calls)

NoCall == [op |-> "none", id |-> None, t |-> 0, before |-> <<>>, ret |-> None]

\* no auth configuration, no orchestrator invocation yet
NoConfig == [cors_origins |-> <<>>, resource |-> None, redirect_uri |-> None]
\* a request header that was not sent (request.headers.get(...) is None)
NoHeader == <<>>
\* no call was made to the IdP endpoint
NoIdp == [kind |-> "not_called", status |-> 0, access_token |-> None, refresh_token |-> None]
\* no response was produced yet
NoResp == [kind |-> "none", status |-> 0, url |-> <<>>, detail |-> <<>>,
           cookie_op |-> "none", cookie |-> None]
\* no call was made to the user-info endpoint
NoUserInfo == [kind |-> "not_called", status |-> 0, sub |-> None, roles |-> <<>>,
               exp |-> None]
\* no TokenData was returned
NoTokenData == [sub |-> None, roles |-> <<>>, exp |-> None]
\* no exception was raised
NoExc == [cls |-> None, handler |-> None, msg |-> <<>>]
\* no UserInfo was returned
NoUser == [sub |-> None, roles |-> <<>>, enriched |-> FALSE]
\* no token set was returned
NoTokens == [access_token |-> None, refresh_token |-> None]
\* no request was sent to the token endpoint
NoExchangeRequest == [code |-> None, code_verifier |-> None, redirect_uri |-> None]
\* /validate-token was not called
NoValidation == [valid |-> FALSE, renew |-> FALSE, keys |-> {}]
\* the record of one orchestrator invocation: its arguments, the position of
\* its handler, what it read and called, and its outcome
Invocation(op) ==
    [op |-> op, impl |-> "alphab_logto", pc |-> "done",
     code |-> None, error |-> None, error_description |-> None,
     cookie |-> None, cookie_read |-> FALSE,
     authorization |-> NoHeader, x_refresh_token |-> None,
     idp |-> NoIdp, userinfo |-> NoUserInfo, jwt |-> "not_called", idp_calls |-> <<>>,
     secure |-> FALSE, resp |-> NoResp, tokens |-> NoTokens, user_id |-> None, user |-> NoUser,
     audit |-> <<>>, exchanges |-> 0,
     token_data |-> NoTokenData, exc |-> NoExc, managers_before |-> <<>>,
     exchange_req |-> NoExchangeRequest, method |-> "GET",
     required_roles |-> <<>>, caller |-> NoTokenData,
     validation |-> NoValidation, expires_in |-> 0]
NoInvocation == Invocation("none")
\* _jwks_cache_time = None
NoTime == -1
\* module state of core/auth.py at import, and no HttpClientManager created yet
KeyInit ==
    /\ jwks_cache = None
    /\ jwks_cache_time = NoTime
    /\ keycalls = <<>>
    /\ managers = <<>>

\* an application without the auth package: no middleware, no routes
NoApp == [name |-> "none", enable_rate_limiting |-> FALSE,
          paths_to_limit |-> <<>>, routes |-> {}]

InitLimiter ==
    /\ now = 0
    /\ requests_per_minute \in 0..MaxThreshold
    /\ requests = <<>>
    /\ calls = [h \in Identifiers |-> <<>>]
    /\ resetAt = [h \in Identifiers |-> 0]
    /\ last = NoCall
    /\ app = "none"
    /\ proc = <<>>
    /\ config = NoConfig
    /\ jar = None
    /\ inv = NoInvocation
    /\ KeyInit
    /\ pkce = <<>>

Tick ==
    /\ \E d \in TickSteps :
          /\ now + d <= MaxTime
          /\ now' = now + d
    /\ UNCHANGED <<requests_per_minute, requests, calls, resetAt, last, gateVars, authVars, keyVars, pkce>>

is_rate_limited(id) ==
    /\ TotalCalls < MaxCalls
    /\ LET ret == IsRateLimitedRet(requests, id, now, requests_per_minute)
       IN  /\ requests' = IsRateLimitedState(requests, id, now, requests_per_minute)
           /\ calls' = [calls EXCEPT ![id] = Append(@, [t |-> now, ret |-> ret])]
           /\ last' = [op |-> "is_rate_limited", id |-> id, t |-> now,
                       before |-> requests, ret |-> ret]
    /\ UNCHANGED <<now, requests_per_minute, resetAt, gateVars, authVars, keyVars, pkce>>

get_remaining_requests(id) ==
    /\ requests' = GetRemainingState(requests, id, now)
    /\ last' = [op |-> "get_remaining_requests", id |-> id, t |-> now,
                before |-> requests,
                ret |-> GetRemainingRet(requests, id, now, requests_per_minute)]
    /\ UNCHANGED <<now, requests_per_minute, calls, resetAt, gateVars, authVars, keyVars, pkce>>

reset(id) ==
    /\ requests' = ResetState(requests, id)
    /\ resetAt' = [h \in Identifiers |->
                     IF id = None \/ id = h THEN Len(calls[h]) ELSE resetAt[h]]
    /\ last' = [op |-> "reset", id |-> id, t |-> now, before |-> requests,
                ret |-> None]
    /\ UNCHANGED <<now, requests_per_minute, calls, gateVars, authVars, keyVars, pkce>>

NextLimiter ==
    \/ Tick
    \/ \E id \in Hosts : is_rate_limited(id)
    \/ \E id \in Hosts : get_remaining_requests(id)
    \/ \E id \in Hosts \cup {None} : reset(id)

SpecLimiter == InitLimiter /\ [][NextLimiter]_vars

(***************************************************************************)
(* Route mounting: routes.py, setup_auth, create_application.  A path is   *)
(* the sequence of its "/" separators and segments.                        *)
(***************************************************************************)
\* routes.py: the routes of the auth router
RouterRoutes ==
    { [method |-> "GET", path |-> <<"/", "signin">>, endpoint |-> "signin"],
      [method |-> "GET", path |-> <<"/", "callback">>, endpoint |-> "callback"],
      [method |-> "OPTIONS", path |-> <<"/", "signout">>, endpoint |-> "options_signout"],
      [method |-> "GET", path |-> <<"/", "signout">>, endpoint |-> "signout"],
      [method |-> "GET", path |-> <<"/", "refresh">>, endpoint |-> "refresh_token"],
      [method |-> "OPTIONS", path |-> <<"/", "me">>, endpoint |-> "options_user_info"],
      [method |-> "GET", path |-> <<"/", "me">>, endpoint |-> "get_user_info"],
      [method |-> "GET", path |-> <<"/", "protected">>, endpoint |-> "protected_route"],
      [method |-> "GET", path |-> <<"/", "test-jwt">>, endpoint |-> "test_jwt_route"],
      [method |-> "OPTIONS", path |-> <<"/", "session">>, endpoint |-> "options_session"],
      [method |-> "GET", path |-> <<"/", "session">>, endpoint |-> "get_session"],
      [method |-> "OPTIONS", path |-> <<"/", "token">>, endpoint |-> "options_token"],
      [method |-> "GET", path |-> <<"/", "token">>, endpoint |-> "get_token"],
      [method |-> "OPTIONS", path |-> <<"/", "validate-token">>,
       endpoint |-> "options_validate_token"],
      [method |-> "GET", path |-> <<"/", "validate-token">>, endpoint |-> "validate_token"] }

\* the endpoints that enter the auth orchestrator
OrchestratorEndpoints ==
    {"signin", "callback", "signout", "refresh_token", "get_user_info",
     "get_session", "get_token", "validate_token"}

\* api/v1/api.py: health and examples routers
ApiRouterRoutes ==
    { [method |-> "GET", path |-> <<"/", "health", "/">>, endpoint |-> "health_check"],
      [method |-> "GET", path |-> <<"/", "examples", "/">>, endpoint |-> "get_examples"] }

\* @application.get("/")
RootRoute == [method |-> "GET", path |-> <<"/">>, endpoint |-> "root"]

\* setup_auth(..., prefix="/auth")
AuthPrefix == <<"/", "auth">>

\* settings.API_V1_STR = "/api/v1"
API_V1_STR == <<"/", "api", "/", "v1">>

\* FastAPI.include_router(router, prefix=prefix)
IncludeRouter(routes, prefix) ==
    {[r EXCEPT !.path = prefix \o r.path] : r \in routes}

\* setup_auth(app, config, prefix)
SetupAuth(a, enable_rate_limiting, prefix) ==
    [a EXCEPT !.enable_rate_limiting = enable_rate_limiting,
              !.paths_to_limit =
                  IF enable_rate_limiting THEN <<prefix \o <<"/">>>> ELSE <<>>,
              !.routes = @ \cup IncludeRouter(RouterRoutes, prefix)]

\* particle0.main.create_application()
CreateApplication ==
    LET a == SetupAuth([NoApp EXCEPT !.name = "particle0"], TRUE, AuthPrefix)
    IN  [a EXCEPT !.routes =
            @ \cup IncludeRouter(ApiRouterRoutes, API_V1_STR)
              \cup IncludeRouter(RouterRoutes, API_V1_STR \o <<"/", "auth">>)
              \cup {RootRoute}]

\* app.py: an application that only calls setup_auth(app, config)
ExampleApplication(enable_rate_limiting) ==
    LET a == SetupAuth([NoApp EXCEPT !.name = "example"], enable_rate_limiting, AuthPrefix)
    IN  [a EXCEPT !.routes = @ \cup {RootRoute}]

\* the application object after startup
Built(name) ==
    CASE name = "particle0" -> CreateApplication
      [] name = "example" -> ExampleApplication(TRUE)
      [] name = "example_unlimited" -> ExampleApplication(FALSE)
      [] OTHER -> NoApp

(***************************************************************************)
(* RateLimitingMiddleware.dispatch (middleware.py)                         *)
(***************************************************************************)
TooManyRequests == 429

\* str.startswith
StartsWith(path, prefix) ==
    /\ Len(prefix) <= Len(path)
    /\ SubSeq(path, 1, Len(prefix)) = prefix

\* mutant of ShouldLimit: the prefix may occur anywhere in the path
ShouldLimitAnywhere(path, paths_to_limit) ==
    \E i \in 1..Len(paths_to_limit) : \E k \in 0..Len(path) :
        /\ k + Len(paths_to_limit[i]) <= Len(path)
        /\ SubSeq(path, k + 1, k + Len(paths_to_limit[i])) = paths_to_limit[i]

\* any(path.startswith(p) for p in self.paths_to_limit)
ShouldLimit(path, paths_to_limit) ==
    \E i \in 1..Len(paths_to_limit) : StartsWith(path, paths_to_limit[i])

\* request.client.host if request.client else "unknown"
ClientId(req) == IF req.client = None THEN Unknown ELSE req.client

NoRequest == [method |-> None, path |-> <<>>, client |-> None]
NoResponse == [status |-> 0, retry_after |-> None, content |-> None]

\* mutant of RateLimitedResponse: the Retry-After header is left out
RateLimitedResponseNoHeader ==
    [status |-> TooManyRequests, retry_after |-> None, content |-> "Too many requests"]

\* Response(content=self.error_message, status_code=self.status_code,
\*          headers={"Retry-After": "60"})
RateLimitedResponse ==
    [status |-> TooManyRequests, retry_after |-> "60", content |-> "Too many requests"]

\* the requests the clients send
Requests ==
    { [method |-> m, path |-> pa, client |-> c] :
        m \in {"GET"},
        pa \in { AuthPrefix \o <<"/", "signin">>,
                 API_V1_STR \o <<"/", "auth", "/", "signin">>,
                 API_V1_STR \o <<"/", "health", "/">> },
        c \in {"ip1", None} }

InitGate ==
    /\ now = 0
    /\ requests_per_minute \in 0..MaxThreshold
    /\ requests = <<>>
    /\ calls = [h \in Identifiers |-> <<>>]
    /\ resetAt = [h \in Identifiers |-> 0]
    /\ last = NoCall
    /\ app \in {"particle0", "example", "example_unlimited"}
    /\ proc = <<>>
    /\ config = NoConfig
    /\ jar = None
    /\ inv = NoInvocation
    /\ KeyInit
    /\ pkce = <<>>

NewRequest(req) ==
    [pc |-> "call_next", req |-> req, checked |-> "pending", forwarded |-> NoRequest,
     resp |-> NoResponse, endpoint |-> None]

\* without the middleware a request goes straight to the router
Receive ==
    /\ ~Built(app).enable_rate_limiting
    /\ Len(proc) < MaxRequests
    /\ \E req \in Requests :
          proc' = Append(proc, [NewRequest(req) EXCEPT !.forwarded = req])
    /\ UNCHANGED <<now, requests_per_minute, requests, calls, resetAt, last, app, authVars, keyVars, pkce>>

\* dispatch(request, call_next) for an arriving request, up to the await of
\* call_next (the only suspension point of dispatch)
Dispatch ==
    /\ Built(app).enable_rate_limiting
    /\ Len(proc) < MaxRequests
    /\ \E req \in Requests :
        LET ip == ClientId(req)
            should_limit == ShouldLimit(req.path, Built(app).paths_to_limit)
            limited == should_limit
                       /\ IsRateLimitedRet(requests, ip, now, requests_per_minute)
        IN  /\ IF should_limit
               THEN /\ requests' = IsRateLimitedState(requests, ip, now, requests_per_minute)
                    /\ calls' = [calls EXCEPT ![ip] = Append(@, [t |-> now, ret |-> limited])]
               ELSE UNCHANGED <<requests, calls>>
            /\ proc' = Append(proc,
                  IF limited
                  THEN [NewRequest(req) EXCEPT !.pc = "done", !.checked = "limited",
                                               !.resp = RateLimitedResponse]
                  ELSE [NewRequest(req) EXCEPT
                            !.checked = IF should_limit THEN "passed" ELSE "skipped",
                            !.forwarded = req])
            /\ last' = [op |-> "dispatch", id |-> ip, t |-> now, before |-> requests,
                        ret |-> limited, p |-> Len(proc) + 1]
    /\ UNCHANGED <<now, requests_per_minute, resetAt, app, authVars, keyVars, pkce>>

\* call_next(request): the router runs the endpoint mounted at the path
Route(i) ==
    /\ proc[i].pc = "call_next"
    /\ LET req == proc[i].req
           match == {r \in Built(app).routes : r.method = req.method /\ r.path = req.path}
       IN  proc' = [proc EXCEPT ![i] =
               IF match = {}
               THEN [@ EXCEPT !.pc = "done", !.endpoint = "not_found",
                              !.resp = [status |-> 404, retry_after |-> None,
                                        content |-> "Not Found"]]
               ELSE LET r == CHOOSE r \in match : TRUE
                    IN  [@ EXCEPT !.pc = "done", !.endpoint = r.endpoint,
                                  !.resp = [status |-> 200, retry_after |-> None,
                                            content |-> r.endpoint]]]
    /\ UNCHANGED <<now, requests_per_minute, requests, calls, resetAt, last, app, authVars, keyVars, pkce>>

NextGate ==
    \/ Tick
    \/ Receive
    \/ Dispatch
    \/ \E i \in 1..Len(proc) : Route(i)

SpecGate == InitGate /\ [][NextGate]_vars

(***************************************************************************)
(* Claims about the rate limiter (checked under SpecLimiter).              *)
(***************************************************************************)
\* the timestamps of w that lie in the trailing 60 seconds ending at t
Recent(w, t) == SelectSeq(w, LAMBDA x : t - x < 60)

\* indices of the is_rate_limited(id) calls that returned false
Accepted(id) == {i \in 1..Len(calls[id]) : calls[id][i].ret = FALSE}

\* ends of the trailing intervals worth looking at: now and every call time
IntervalEnds(id) == {now} \cup {calls[id][i].t : i \in 1..Len(calls[id])}

AcceptedIn(id, from, T) ==
    {i \in Accepted(id) : i > from /\ T - calls[id][i].t < 60 /\ calls[id][i].t <= T}

\* C1 (as claimed): for every identifier, the number of is_rate_limited calls
\* that returned false within any trailing 60-second interval never exceeds
\* requests_per_minute, whatever is_rate_limited, get_remaining_requests and
\* reset calls were made.
C1_AcceptedWithinThreshold ==
    \A id \in Hosts : \A T \in IntervalEnds(id) :
        Cardinality(AcceptedIn(id, 0, T)) <= requests_per_minute

\* C1 (amended): for every identifier the stored window never holds more than
\* requests_per_minute timestamps, and the calls that returned false since the
\* last reset covering the identifier never exceed requests_per_minute within
\* any trailing 60-second interval.
C1_WindowWithinThreshold ==
    \A id \in Hosts :
        /\ Len(Lookup(requests, id)) <= requests_per_minute
        /\ \A T \in IntervalEnds(id) :
              Cardinality(AcceptedIn(id, resetAt[id], T)) <= requests_per_minute

\* C1 witness: an identifier was reset, filled its window again and is limited
C1_Witness ==
    /\ requests_per_minute >= 1
    /\ last.op = "is_rate_limited"
    /\ last.ret = TRUE
    /\ resetAt[last.id] > 0
    /\ Len(Lookup(requests, last.id)) = requests_per_minute
    /\ Cardinality(AcceptedIn(last.id, 0, now)) > requests_per_minute

\* C2: is_rate_limited(id) prunes the timestamps older than 60 seconds; if the
\* pruned count is already >= threshold it returns true and the window is the
\* pruned one (the request is not recorded); otherwise it returns false and the
\* window is the pruned one with the current timestamp appended.
C2_IsRateLimitedEffect ==
    last.op = "is_rate_limited" =>
        LET p == Recent(Lookup(last.before, last.id), last.t)
        IN  IF Len(p) >= requests_per_minute
            THEN last.ret = TRUE /\ Lookup(requests, last.id) = p
            ELSE last.ret = FALSE /\ Lookup(requests, last.id) = Append(p, last.t)

\* C2 witness: a limited call, whose window is left as it was
C2_Witness ==
    /\ requests_per_minute >= 1
    /\ last.op = "is_rate_limited"
    /\ last.ret = TRUE
    /\ last.t > 0
    /\ requests = last.before

\* the is_rate_limited(id) calls made since the last reset covering id
CallsSinceReset(id) == SubSeq(calls[id], resetAt[id] + 1, Len(calls[id]))

\* C3: with threshold N the first N is_rate_limited calls for an identifier
\* within one minute return false and the next ones return true, whatever calls
\* for other identifiers are interleaved, and is_rate_limited(B) leaves the
\* window of every A # B unchanged.
C3_IndependentWindows ==
    /\ \A id \in Hosts :
          LET cs == CallsSinceReset(id)
          IN  \A k \in 1..Len(cs) :
                  cs[k].t - cs[1].t < 60 => (cs[k].ret = (k > requests_per_minute))
    /\ last.op = "is_rate_limited" =>
          \A a \in Hosts \ {last.id} :
              /\ (a \in DOMAIN requests) = (a \in DOMAIN last.before)
              /\ Lookup(requests, a) = Lookup(last.before, a)

\* C3 witness: B is accepted while A has used its N calls and been refused
C3_Witness ==
    /\ requests_per_minute >= 1
    /\ last.op = "is_rate_limited"
    /\ last.ret = FALSE
    /\ \E a \in Hosts \ {last.id} :
          /\ Len(CallsSinceReset(a)) = requests_per_minute + 1
          /\ CallsSinceReset(a)[requests_per_minute + 1].ret = TRUE
          /\ CallsSinceReset(a)[requests_per_minute + 1].t - CallsSinceReset(a)[1].t < 60
          /\ Len(Lookup(requests, a)) = requests_per_minute

\* C4 (as claimed): get_remaining_requests(id) returns
\* max(0, threshold - count within the trailing 60 seconds) and leaves the
\* identifier-to-window mapping, entries included, exactly as it was; only
\* is_rate_limited and reset change the mapping.
C4_GetRemainingNonMutating ==
    /\ last.op = "get_remaining_requests" =>
          /\ last.ret = Max(0, requests_per_minute
                               - Len(Recent(Lookup(last.before, last.id), last.t)))
          /\ requests = last.before
    /\ (last.op # "none" /\ requests # last.before) =>
          last.op \in {"is_rate_limited", "reset"}

(***************************************************************************)
(* Claims about the rate-limiting gate (checked under SpecGate).           *)
(***************************************************************************)
\* the path starts with one of the prefixes the middleware was given
ProtectedPath(path) ==
    \E n \in 1..Len(Built(app).paths_to_limit) :
        LET pre == Built(app).paths_to_limit[n]
        IN  /\ Len(path) >= Len(pre)
            /\ \A k \in 1..Len(pre) : path[k] = pre[k]

PassedFor(id) ==
    {i \in 1..Len(proc) : proc[i].checked = "passed" /\ ClientId(proc[i].req) = id}

\* C5: however concurrent handlers of one identifier interleave (each may be
\* suspended in call_next while others run dispatch), no more than
\* requests_per_minute requests of that identifier are accepted within any
\* trailing 60 seconds, and the requests let through are exactly the accepted
\* is_rate_limited calls.
C5_NoInterleavingExceedsThreshold ==
    \A id \in Identifiers :
        /\ Cardinality(PassedFor(id)) = Cardinality(Accepted(id))
        /\ \A T \in IntervalEnds(id) :
              Cardinality(AcceptedIn(id, 0, T)) <= requests_per_minute

\* C5 witness: a request is refused while another of the same identifier is
\* suspended in its handler
C5_Witness ==
    /\ requests_per_minute >= 1
    /\ \E i, j \in 1..Len(proc) :
          /\ proc[i].pc = "call_next" /\ proc[i].checked = "passed"
          /\ proc[j].checked = "limited"
          /\ ClientId(proc[i].req) = ClientId(proc[j].req)

\* C6: for a request on a protected path, if the limiter reports the client as
\* limited the gate answers 429 with Retry-After: 60 and no handler is invoked;
\* if not, the request is handed to the handler unmodified.
C6_GateShortCircuit ==
    /\ \A i \in 1..Len(proc) :
          (Built(app).enable_rate_limiting /\ ProtectedPath(proc[i].req.path)) =>
              /\ proc[i].checked \in {"limited", "passed"}
              /\ proc[i].checked = "limited" =>
                    /\ proc[i].pc = "done"
                    /\ proc[i].resp.status = 429
                    /\ proc[i].resp.retry_after = "60"
                    /\ proc[i].forwarded = NoRequest
                    /\ proc[i].endpoint = None
              /\ proc[i].checked = "passed" =>
                    /\ proc[i].forwarded = proc[i].req
                    /\ proc[i].pc = "done" =>
                          /\ proc[i].endpoint # None
                          /\ proc[i].resp.status # 429
    /\ (last.op = "dispatch" /\ ProtectedPath(proc[last.p].req.path)) =>
          LET before == Recent(Lookup(last.before, ClientId(proc[last.p].req)), last.t)
          IN  (proc[last.p].checked = "limited") = (Len(before) >= requests_per_minute)

\* C6 witness: a limited request answered 429 after requests of the client passed
C6_Witness ==
    /\ requests_per_minute >= 1
    /\ \E i \in 1..Len(proc) :
          /\ proc[i].checked = "limited"
          /\ proc[i].resp.status = 429
          /\ ProtectedPath(proc[i].req.path)

\* C7: a request whose path does not start with a protected prefix is passed
\* through, does not consult the limiter and leaves every window unchanged.
C7_OtherPathsNeverLimited ==
    /\ \A i \in 1..Len(proc) :
          ~ProtectedPath(proc[i].req.path) =>
              /\ proc[i].checked \in {"skipped", "pending"}
              /\ proc[i].forwarded = proc[i].req
              /\ proc[i].pc = "done" =>
                    /\ proc[i].endpoint # None
                    /\ proc[i].resp.status # 429
    /\ (last.op = "dispatch" /\ ~ProtectedPath(proc[last.p].req.path)) =>
          /\ requests = last.before
          /\ last.ret = FALSE

\* C7 witness: a client whose budget is used up is served on another path
C7_Witness ==
    /\ requests_per_minute >= 1
    /\ \E i, j \in 1..Len(proc) :
          /\ proc[j].checked = "passed"
          /\ ClientId(proc[i].req) = ClientId(proc[j].req)
          /\ Len(Recent(Lookup(requests, ClientId(proc[i].req)), now)) = requests_per_minute
          /\ ~ProtectedPath(proc[i].req.path)
          /\ proc[i].pc = "done"
          /\ proc[i].checked = "skipped"
          /\ last.op = "dispatch" /\ last.p = i

\* C8 (as claimed): with rate limiting enabled, every request that reaches an
\* orchestrator endpoint has first been checked by the rate limiter.
C8_EveryAuthRequestChecked ==
    \A i \in 1..Len(proc) :
        (Built(app).enable_rate_limiting /\ proc[i].endpoint \in OrchestratorEndpoints) =>
            proc[i].checked = "passed"

(***************************************************************************)
(* AuthService (services/auth_service.py) and the token exchange           *)
(* (services/token_service.py)                                             *)
(***************************************************************************)
\* Python truthiness of an optional string
Truthy(x) == x \notin {None, ""}

\* the origins an application may list in cors_origins
HttpOrigin == [scheme |-> "http", rest |-> "://localhost:3000"]
HttpsOrigin == [scheme |-> "https", rest |-> "://particle0.vercel.app"]
Slash == [scheme |-> "", rest |-> "/"]

\* self.config.cors_origins[0] if self.config.cors_origins else "/"
FrontendUrl(cors_origins) == IF Len(cors_origins) > 0 THEN cors_origins[1] ELSE Slash

\* the verifiers generate_code_verifier may return
Verifiers == {"verifier1", "verifier2"}

\* generate_code_challenge: base64url(sha256(verifier)) without padding
CodeChallenge(verifier) == <<"b64url", "sha256", verifier>>

\* what the IdP token endpoint may do with a POST
IdpOutcomes ==
    { [kind |-> "response", status |-> 200, access_token |-> "at1", refresh_token |-> "rt1"],
      [kind |-> "response", status |-> 200, access_token |-> "at1", refresh_token |-> None],
      [kind |-> "response", status |-> 200, access_token |-> None, refresh_token |-> None],
      [kind |-> "response", status |-> 400, access_token |-> None, refresh_token |-> None],
      [kind |-> "network_error", status |-> 0, access_token |-> None, refresh_token |-> None] }

\* mutant of Exchange: the status of the answer is not checked
ExchangeNoStatusCheck(idp) ==
    [raised |-> idp.kind # "response", access_token |-> idp.access_token,
     refresh_token |-> idp.refresh_token, str |-> <<"HTTP error during token exchange">>]

\* TokenService.exchange_code_for_tokens: TokenResponse, or TokenError raised
Exchange(idp) ==
    IF idp.kind = "response" /\ idp.status = 200 /\ idp.access_token # None
    THEN [raised |-> FALSE, access_token |-> idp.access_token,
          refresh_token |-> idp.refresh_token, str |-> <<>>]
    ELSE [raised |-> TRUE, access_token |-> None, refresh_token |-> None,
          str |-> IF idp.kind = "network_error"
                  THEN <<"HTTP error during token exchange">>
                  ELSE <<"Error exchanging code for tokens">>]

\* log_auth_event(request, event_type, success=..., ...)
AuditEvent(event_type, success) == [event_type |-> event_type, success |-> success]

\* raise HTTPException(status_code=..., detail=...)
HTTPException(status_code, detail) ==
    [kind |-> "http_exception", status |-> status_code, url |-> <<>>,
     detail |-> detail, cookie_op |-> "none", cookie |-> None]

\* RedirectResponse(url=...), with the cookie it sets or deletes
Redirect(url, cookie_op, cookie) ==
    [kind |-> "redirect", status |-> 307, url |-> url, detail |-> <<>>,
     cookie_op |-> cookie_op, cookie |-> cookie]

\* handle_callback, `if error:` branch
CallbackError(cors_origins, error) ==
    [resp |-> Redirect(<<FrontendUrl(cors_origins).scheme, FrontendUrl(cors_origins).rest,
                         "?error=", error>>, "none", None),
     audit |-> <<AuditEvent("authentication", FALSE)>>,
     cookie_read |-> FALSE, exchanges |-> 0]

\* handle_callback, `if not code:` branch
CallbackNoCode ==
    [resp |-> HTTPException(400, <<"No authorization code provided">>),
     audit |-> <<AuditEvent("authentication", FALSE)>>,
     cookie_read |-> FALSE, exchanges |-> 0]

\* handle_callback, the try block: the response, or the exception raised in it
CallbackTry(cors_origins, cookie, idp) ==
    IF ~Truthy(cookie)
    THEN [raised |-> TRUE, exchanges |-> 0, audit |-> <<>>,
          str |-> <<"400: ", "No code verifier found. Please try signing in again.">>,
          resp |-> HTTPException(400,
                      <<"No code verifier found. Please try signing in again.">>)]
    ELSE LET tokens == Exchange(idp)
         IN  IF tokens.raised
             THEN [raised |-> TRUE, exchanges |-> 1, audit |-> <<>>, str |-> tokens.str,
                   resp |-> HTTPException(401, tokens.str)]
             ELSE [raised |-> FALSE, exchanges |-> 1, str |-> <<>>,
                   audit |-> <<AuditEvent("authentication", TRUE)>>,
                   resp |-> Redirect(
                       <<FrontendUrl(cors_origins).scheme, FrontendUrl(cors_origins).rest,
                         "/auth/callback?token=", tokens.access_token>>
                       \o (IF Truthy(tokens.refresh_token)
                           THEN <<"&refresh_token=", tokens.refresh_token>> ELSE <<>>),
                       "delete", None)]

\* mutant of CallbackExcept: no handler around the try block, the exception
\* raised in it reaches the client as it is
CallbackNoExcept(try) ==
    [resp |-> try.resp, audit |-> try.audit, cookie_read |-> TRUE,
     exchanges |-> try.exchanges]

\* handle_callback, `except Exception as e:` around the try block
CallbackExcept(try) ==
    IF try.raised
    THEN [resp |-> HTTPException(500, <<"Authentication error: ">> \o try.str),
          audit |-> try.audit \o <<AuditEvent("authentication", FALSE)>>,
          cookie_read |-> TRUE, exchanges |-> try.exchanges]
    ELSE [resp |-> try.resp, audit |-> try.audit, cookie_read |-> TRUE,
          exchanges |-> try.exchanges]

\* mutant of HandleCallbackResult: the verifier cookie is read before the
\* code is checked
HandleCallbackVerifierFirst(cors_origins, code, error, cookie, idp) ==
    IF Truthy(error) THEN CallbackError(cors_origins, error)
    ELSE IF ~Truthy(cookie)
         THEN [resp |-> HTTPException(400,
                           <<"No code verifier found. Please try signing in again.">>),
               audit |-> <<AuditEvent("authentication", FALSE)>>,
               cookie_read |-> TRUE, exchanges |-> 0]
    ELSE IF ~Truthy(code) THEN [CallbackNoCode EXCEPT !.cookie_read = TRUE]
    ELSE [resp |-> HTTPException(500, <<"Authentication error: ">> \o Exchange(idp).str),
          audit |-> <<AuditEvent("authentication", FALSE)>>,
          cookie_read |-> TRUE, exchanges |-> 1]

\* mutant of HandleCallbackResult: the code is checked before the error
HandleCallbackCodeFirst(cors_origins, code, error, cookie, idp) ==
    IF ~Truthy(code) THEN CallbackNoCode
    ELSE IF Truthy(error) THEN CallbackError(cors_origins, error)
    ELSE CallbackExcept(CallbackTry(cors_origins, cookie, idp))

\* AuthService.handle_callback(request, code, error, error_description)
HandleCallbackResult(cors_origins, code, error, cookie, idp) ==
    IF Truthy(error) THEN CallbackError(cors_origins, error)
    ELSE IF ~Truthy(code) THEN CallbackNoCode
    ELSE CallbackExcept(CallbackTry(cors_origins, cookie, idp))

\* the browser applies the Set-Cookie headers of a response
ApplyCookie(cookie, resp) ==
    CASE resp.cookie_op = "set" -> resp.cookie
      [] resp.cookie_op = "delete" -> None
      [] OTHER -> cookie

InitAuth ==
    /\ now = 0
    /\ requests_per_minute = 0
    /\ requests = <<>>
    /\ calls = [h \in Identifiers |-> <<>>]
    /\ resetAt = [h \in Identifiers |-> 0]
    /\ last = NoCall
    /\ app = "none"
    /\ proc = <<>>
    /\ config \in [cors_origins : {<<>>, <<HttpOrigin>>, <<HttpsOrigin, HttpOrigin>>},
                   resource : {None, "https://api"},
                   redirect_uri : {"https://api/auth/callback"}]
    /\ jar = None
    /\ inv = NoInvocation
    /\ KeyInit
    /\ pkce = <<>>

\* AuthService.initiate_signin(request)
initiate_signin ==
    /\ inv.pc = "done"
    /\ \E code_verifier \in Verifiers :
        LET code_challenge == CodeChallenge(code_verifier)
            auth_url == <<"/oidc/auth?", "code_challenge=", code_challenge,
                          "code_challenge_method=S256">>
                        \o (IF Truthy(config.resource)
                            THEN <<"&resource=", config.resource>> ELSE <<>>)
            secure == IF Len(config.cors_origins) > 0
                      THEN config.cors_origins[1].scheme = "https" ELSE FALSE
            resp == Redirect(auth_url, "set", code_verifier)
        IN  /\ inv' = [Invocation("initiate_signin") EXCEPT
                           !.cookie = jar, !.secure = secure, !.resp = resp,
                           !.audit = <<AuditEvent("signin_initiation", TRUE)>>]
            /\ jar' = ApplyCookie(jar, resp)
    /\ UNCHANGED <<now, requests_per_minute, requests, calls, resetAt, last, gateVars, config, keyVars, pkce>>

\* mutant of ExchangeRequest: the verifier sent is not the one of the cookie
ExchangeRequestOtherVerifier(code, cookie, redirect_uri) ==
    [code |-> code, code_verifier |-> "verifier1", redirect_uri |-> redirect_uri]

\* handle_callback: the arguments of exchange_code_for_tokens, which posts
\* them to the token endpoint as code, code_verifier and redirect_uri
ExchangeRequest(code, cookie, redirect_uri) ==
    [code |-> code, code_verifier |-> cookie, redirect_uri |-> redirect_uri]

\* the code_verifier cookie reaches its max_age, or the browser drops it
expire_cookie ==
    /\ jar # None
    /\ jar' = None
    /\ UNCHANGED <<now, requests_per_minute, requests, calls, resetAt, last, gateVars,
                   config, inv, keyVars, pkce>>

\* handle_callback reaches `await exchange_code_for_tokens` with these inputs
ReachesExchange(code, error, cookie) == ~Truthy(error) /\ Truthy(code) /\ Truthy(cookie)

\* AuthService.handle_callback(request, code, error, error_description), up to
\* its return or raise, or up to its await of the token exchange
handle_callback ==
    /\ inv.pc = "done"
    /\ \E code \in {None, "", "code1"}, error \in {None, "", "access_denied"},
          error_description \in {None, "User denied"} :
        LET r == HandleCallbackResult(config.cors_origins, code, error, jar, NoIdp)
            call == [Invocation("handle_callback") EXCEPT
                        !.code = code, !.error = error,
                        !.error_description = error_description, !.cookie = jar]
        IN  IF ReachesExchange(code, error, jar)
            THEN /\ inv' = [call EXCEPT !.pc = "await_exchange", !.cookie_read = TRUE,
                                        !.idp_calls = <<"token">>, !.exchanges = 1,
                                        !.exchange_req =
                                            ExchangeRequest(code, jar,
                                                            config.redirect_uri)]
                 /\ jar' = jar
            ELSE /\ inv' = [call EXCEPT !.resp = r.resp, !.audit = r.audit,
                                        !.cookie_read = r.cookie_read,
                                        !.exchanges = r.exchanges]
                 /\ jar' = ApplyCookie(jar, r.resp)
    /\ UNCHANGED <<now, requests_per_minute, requests, calls, resetAt, last, gateVars, config, keyVars, pkce>>

\* the token endpoint answers (or the transport fails) and handle_callback
\* runs from its await to its return or raise
exchange_returns ==
    /\ inv.op = "handle_callback"
    /\ inv.pc = "await_exchange"
    /\ \E idp \in IdpOutcomes :
        LET r == HandleCallbackResult(config.cors_origins, inv.code, inv.error,
                                      inv.cookie, idp)
        IN  /\ inv' = [inv EXCEPT !.pc = "done", !.idp = idp, !.resp = r.resp,
                                  !.audit = r.audit, !.cookie_read = r.cookie_read,
                                  !.exchanges = r.exchanges]
            /\ jar' = ApplyCookie(jar, r.resp)
    /\ UNCHANGED <<now, requests_per_minute, requests, calls, resetAt, last, gateVars, config, keyVars, pkce>>

NextAuth ==
    \/ initiate_signin
    \/ expire_cookie
    \/ handle_callback
    \/ exchange_returns

SpecAuth == InitAuth /\ [][NextAuth]_vars

(***************************************************************************)
(* Sign-out, profile and refresh (services/auth_service.py, routes.py,     *)
(* dependencies.py, and the earlier implementations in auth-backend and    *)
(* backend)                                                                *)
(***************************************************************************)
\* the Authorization headers a request may carry, split at whitespace
AuthHeaders ==
    { NoHeader, <<"garbage">>, <<"Basic", "opaque1">>, <<"Bearer", "jwt1">>,
      <<"bearer", "opaque1">>, <<"Bearer", "opaque1", "extra">> }

\* scheme.lower()
Lower(scheme) ==
    CASE scheme = "Bearer" -> "bearer"
      [] scheme = "Basic" -> "basic"
      [] OTHER -> scheme

\* len(token.split(".")) == 3
IsJwtFormat(token) == token \in {"jwt1"}

\* what the IdP user-info endpoint may do with a GET
UserInfoOutcomes ==
    { [kind |-> "response", status |-> 200, sub |-> "user1", roles |-> <<"admin">>,
       exp |-> None],
      [kind |-> "response", status |-> 200, sub |-> "user1", roles |-> <<"admin">>,
       exp |-> "exp1"],
      [kind |-> "response", status |-> 200, sub |-> None, roles |-> <<>>, exp |-> None],
      [kind |-> "response", status |-> 401, sub |-> None, roles |-> <<>>, exp |-> None],
      [kind |-> "network_error", status |-> 0, sub |-> None, roles |-> <<>>,
       exp |-> None] }

\* TokenService.get_user_info_from_token: the payload, or TokenError raised
\* (the payload it builds has the keys sub, name, email, picture, roles, username,
\* email_verified, created_at, updated_at: an "exp" of the answer is not copied)
GetUserInfoFromToken(out) ==
    IF out.kind = "response" /\ out.status = 200 /\ Truthy(out.sub)
    THEN [raised |-> "none", sub |-> out.sub, roles |-> out.roles,
          exp_key |-> FALSE, exp |-> None]
    ELSE [raised |-> "TokenError", sub |-> None, roles |-> <<>>,
          exp_key |-> FALSE, exp |-> None]

\* what validate_jwt may do with a token of JWT format
JwtOutcomes == {"payload", "payload_exp", "payload_no_sub", "TokenError", "Exception"}

\* TokenService.validate_jwt: the payload, or the exception raised
ValidateJwt(out) ==
    CASE out = "payload" ->
           [raised |-> "none", sub |-> "user1", roles |-> <<"admin">>,
            exp_key |-> FALSE, exp |-> None]
      [] out = "payload_exp" ->
           [raised |-> "none", sub |-> "user1", roles |-> <<"admin">>,
            exp_key |-> TRUE, exp |-> "exp1"]
      [] out = "payload_no_sub" ->
           [raised |-> "none", sub |-> None, roles |-> <<>>, exp_key |-> FALSE,
            exp |-> None]
      [] OTHER -> [raised |-> out, sub |-> None, roles |-> <<>>, exp_key |-> FALSE,
                   exp |-> None]

\* the header carries a bearer token
IsBearer(authorization) ==
    Len(authorization) = 2 /\ Lower(authorization[1]) = "bearer"

\* the outcomes of validate_jwt to consider: it is called only by alphab_logto
\* and only for a bearer token of JWT format
JwtOutcomesFor(impl, authorization) ==
    IF impl = "alphab_logto" /\ IsBearer(authorization) /\ IsJwtFormat(authorization[2])
    THEN JwtOutcomes ELSE {"not_called"}

\* the outcomes of the user-info endpoint to consider: it is called only for
\* a bearer token that is not validated as a JWT
UserInfoOutcomesFor(impl, authorization) ==
    IF IsBearer(authorization) /\ JwtOutcomesFor(impl, authorization) = {"not_called"}
    THEN UserInfoOutcomes ELSE {NoUserInfo}

\* RedirectResponse(url=frontend_url, status_code=status.HTTP_303_SEE_OTHER)
RedirectSeeOther(frontend_url) ==
    [kind |-> "redirect", status |-> 303, url |-> <<frontend_url.scheme, frontend_url.rest>>,
     detail |-> <<>>, cookie_op |-> "none", cookie |-> None]

\* handle_signout, the part that extracts user_id: the exception that leaves
\* it, the user_id, and the IdP endpoints called
SignoutUserId(impl, authorization, jwt, userinfo) ==
    IF authorization = NoHeader
    THEN [raised |-> "none", user_id |-> None, idp_calls |-> <<>>]
    ELSE IF Len(authorization) # 2
    THEN [raised |-> IF impl = "alphab_logto" THEN "ValueError" ELSE "none",
          user_id |-> None, idp_calls |-> <<>>]
    ELSE IF Lower(authorization[1]) # "bearer"
    THEN [raised |-> "none", user_id |-> None, idp_calls |-> <<>>]
    ELSE IF impl = "alphab_logto" /\ IsJwtFormat(authorization[2])
    THEN [raised |-> IF ValidateJwt(jwt).raised = "Exception" THEN "Exception" ELSE "none",
          user_id |-> ValidateJwt(jwt).sub, idp_calls |-> <<>>]
    ELSE [raised |-> "none", user_id |-> GetUserInfoFromToken(userinfo).sub,
          idp_calls |-> <<"userinfo">>]

\* mutant of HandleSignoutResult: an exception while extracting user_id is
\* not caught
HandleSignoutNoCatch(impl, cors_origins, authorization, jwt, userinfo) ==
    LET u == SignoutUserId(impl, authorization, jwt, userinfo)
    IN  IF u.raised = "none"
        THEN [resp |-> RedirectSeeOther(FrontendUrl(cors_origins)), user_id |-> u.user_id,
              audit |-> <<AuditEvent("signout", TRUE)>>, idp_calls |-> u.idp_calls]
        ELSE [resp |-> HTTPException(500, <<"Internal Server Error">>), user_id |-> None,
              audit |-> <<>>, idp_calls |-> u.idp_calls]

\* AuthService.handle_signout(request)
HandleSignoutResult(impl, cors_origins, authorization, jwt, userinfo) ==
    LET u == SignoutUserId(impl, authorization, jwt, userinfo)
    IN  [resp |-> RedirectSeeOther(FrontendUrl(cors_origins)),
         user_id |-> IF u.raised = "none" THEN u.user_id ELSE None,
         audit |-> <<AuditEvent("signout", u.raised = "none")>>,
         idp_calls |-> u.idp_calls]

\* AuthService.handle_signout(request), in alphab_logto and in logto_auth
handle_signout ==
    /\ inv.pc = "done"
    /\ \E impl \in {"alphab_logto", "logto_auth"}, authorization \in AuthHeaders :
       \E jwt \in JwtOutcomesFor(impl, authorization),
          userinfo \in UserInfoOutcomesFor(impl, authorization) :
        LET r == HandleSignoutResult(impl, config.cors_origins, authorization, jwt, userinfo)
        IN  inv' = [Invocation("handle_signout") EXCEPT
                       !.impl = impl, !.authorization = authorization, !.cookie = jar,
                       !.jwt = jwt, !.userinfo = userinfo,
                       !.idp_calls = r.idp_calls, !.resp = r.resp,
                       !.user_id = r.user_id, !.audit = r.audit]
    /\ UNCHANGED <<now, requests_per_minute, requests, calls, resetAt, last, gateVars,
                   config, jar, keyVars, pkce>>

\* the TokenData of an authenticated caller
TokenData == [sub |-> "user1", roles |-> <<"admin">>]

\* a JSON response with status 200
Json == [kind |-> "json", status |-> 200, url |-> <<>>, detail |-> <<>>,
         cookie_op |-> "none", cookie |-> None]

\* raise AuthError(detail, status_code=401): an HTTPException
AuthError(detail) == HTTPException(401, detail)

\* TokenData(sub=sub, roles=roles, exp=exp) of get_current_user, from a payload
TokenDataOf(payload) ==
    [sub |-> payload.sub, roles |-> payload.roles,
     exp |-> IF payload.exp_key THEN payload.exp ELSE None]

\* mutant of GetCurrentUser: a token of JWT format that fails local validation
\* is looked up at the user-info endpoint, and a lookup without sub yields an
\* identity with an empty sub
GetCurrentUserFallback(authorization, jwt, userinfo) ==
    IF ~IsBearer(authorization)
    THEN [raised |-> TRUE, resp |-> AuthError(<<"Not authenticated">>),
          token_data |-> NoTokenData, idp_calls |-> <<>>]
    ELSE IF IsJwtFormat(authorization[2])
    THEN IF ValidateJwt(jwt).raised = "none" /\ Truthy(ValidateJwt(jwt).sub)
         THEN [raised |-> FALSE, resp |-> NoResp,
               token_data |-> TokenDataOf(ValidateJwt(jwt)), idp_calls |-> <<>>]
         ELSE [raised |-> TRUE, resp |-> AuthError(<<"Invalid JWT: ">>),
               token_data |-> NoTokenData, idp_calls |-> <<"userinfo">>]
    ELSE [raised |-> FALSE, resp |-> NoResp,
          token_data |-> [sub |-> "", roles |-> <<>>, exp |-> None],
          idp_calls |-> <<"userinfo">>]

\* get_current_user(request, token_service): the TokenData, or AuthError
\* raised, and the IdP endpoints called
GetCurrentUser(authorization, jwt, userinfo) ==
    IF authorization = NoHeader
    THEN [raised |-> TRUE, resp |-> AuthError(<<"Not authenticated">>),
          token_data |-> NoTokenData, idp_calls |-> <<>>]
    ELSE IF Len(authorization) # 2
    THEN [raised |-> TRUE, resp |-> AuthError(<<"Invalid authorization header format">>),
          token_data |-> NoTokenData, idp_calls |-> <<>>]
    ELSE IF Lower(authorization[1]) # "bearer"
    THEN [raised |-> TRUE, resp |-> AuthError(<<"Invalid authorization scheme">>),
          token_data |-> NoTokenData, idp_calls |-> <<>>]
    ELSE IF IsJwtFormat(authorization[2])
    THEN LET v == ValidateJwt(jwt)
         IN  IF v.raised = "none" /\ Truthy(v.sub)
             THEN [raised |-> FALSE, resp |-> NoResp, token_data |-> TokenDataOf(v),
                   idp_calls |-> <<>>]
             ELSE [raised |-> TRUE,
                   resp |-> AuthError(IF v.raised = "TokenError" THEN <<"Invalid JWT: ">>
                                      ELSE <<"JWT processing error: ">>),
                   token_data |-> NoTokenData, idp_calls |-> <<>>]
    ELSE LET u == GetUserInfoFromToken(userinfo)
         IN  IF u.raised = "none" /\ Truthy(u.sub)
             THEN [raised |-> FALSE, resp |-> NoResp, token_data |-> TokenDataOf(u),
                   idp_calls |-> <<"userinfo">>]
             ELSE [raised |-> TRUE,
                   resp |-> AuthError(<<"Opaque token validation failed: ">>),
                   token_data |-> NoTokenData, idp_calls |-> <<"userinfo">>]

\* UserInfo(sub=token_data.sub, roles=token_data.roles, ...=None)
BasicUserInfo(token_data) ==
    [sub |-> token_data.sub, roles |-> token_data.roles, enriched |-> FALSE]

\* AuthService.get_user_info(request, token_data) of alphab_logto
GetUserInfoAlphab(authorization, token_data, userinfo) ==
    IF authorization = NoHeader
    THEN [resp |-> HTTPException(401, <<"Authorization header missing">>),
          user |-> NoUser, idp_calls |-> <<>>]
    ELSE IF Len(authorization) # 2
    THEN [resp |-> HTTPException(401, <<"Invalid authorization header format">>),
          user |-> NoUser, idp_calls |-> <<>>]
    ELSE IF Lower(authorization[1]) # "bearer"
    THEN [resp |-> HTTPException(401, <<"Invalid authorization scheme">>),
          user |-> NoUser, idp_calls |-> <<>>]
    ELSE IF GetUserInfoFromToken(userinfo).raised # "none"
    THEN [resp |-> HTTPException(401, <<"Invalid token: ">>),
          user |-> NoUser, idp_calls |-> <<"userinfo">>]
    ELSE [resp |-> Json, idp_calls |-> <<"userinfo">>,
          user |-> [sub |-> GetUserInfoFromToken(userinfo).sub,
                    roles |-> GetUserInfoFromToken(userinfo).roles, enriched |-> TRUE]]

\* AuthService.get_user_info(request, token_data) of logto_auth
GetUserInfoLogtoAuth(authorization, token_data, userinfo) ==
    IF authorization = NoHeader \/ Len(authorization) # 2
       \/ Lower(authorization[1]) # "bearer"
    THEN [resp |-> Json, user |-> BasicUserInfo(token_data), idp_calls |-> <<>>]
    ELSE IF GetUserInfoFromToken(userinfo).raised # "none"
    THEN [resp |-> Json, user |-> BasicUserInfo(token_data), idp_calls |-> <<"userinfo">>]
    ELSE [resp |-> Json, idp_calls |-> <<"userinfo">>,
          user |-> [sub |-> GetUserInfoFromToken(userinfo).sub,
                    roles |-> token_data.roles, enriched |-> TRUE]]

\* AuthService.get_user_info(request, token_data), in alphab_logto and in
\* logto_auth, for a caller that get_current_user has authenticated
get_user_info ==
    /\ inv.pc = "done"
    /\ \E impl \in {"alphab_logto", "logto_auth"}, authorization \in AuthHeaders :
       \E userinfo \in UserInfoOutcomesFor("logto_auth", authorization) :
        LET r == IF impl = "alphab_logto"
                 THEN GetUserInfoAlphab(authorization, TokenData, userinfo)
                 ELSE GetUserInfoLogtoAuth(authorization, TokenData, userinfo)
        IN  inv' = [Invocation("get_user_info") EXCEPT
                       !.impl = impl, !.authorization = authorization, !.cookie = jar,
                       !.userinfo = userinfo,
                       !.idp_calls = r.idp_calls, !.resp = r.resp, !.user = r.user]
    /\ UNCHANGED <<now, requests_per_minute, requests, calls, resetAt, last, gateVars,
                   config, jar, keyVars, pkce>>

\* the IdP answer has no "refresh_token" key
Omitted == "omitted"

\* what the IdP token endpoint may do with a refresh_token grant
RefreshOutcomes ==
    { [kind |-> "response", status |-> 200, access_token |-> "at2", refresh_token |-> "rt2"],
      [kind |-> "response", status |-> 200, access_token |-> "at2", refresh_token |-> Omitted],
      [kind |-> "response", status |-> 200, access_token |-> "at2", refresh_token |-> None],
      [kind |-> "response", status |-> 200, access_token |-> "at2", refresh_token |-> ""],
      [kind |-> "response", status |-> 400, access_token |-> None, refresh_token |-> Omitted],
      [kind |-> "network_error", status |-> 0, access_token |-> None,
       refresh_token |-> Omitted] }

\* tokens.get("refresh_token", default)
GetRefreshToken(idp, default) ==
    IF idp.refresh_token = Omitted THEN default ELSE idp.refresh_token

\* TokenService.refresh_token(refresh_token): TokenResponse, or TokenError raised
RefreshToken(idp, refresh_token) ==
    IF idp.kind = "response" /\ idp.status = 200 /\ idp.access_token # None
    THEN [raised |-> FALSE, access_token |-> idp.access_token,
          refresh_token |-> GetRefreshToken(idp, refresh_token)]
    ELSE [raised |-> TRUE, access_token |-> None, refresh_token |-> None]

\* mutant of RefreshAccessToken: the refresh token of the IdP is returned as it is
RefreshAccessTokenNoFallback(tokens, refresh_token) ==
    [access_token |-> tokens.access_token, refresh_token |-> tokens.refresh_token]

\* AuthService.refresh_access_token(refresh_token), after the TokenResponse
\* arrived: the dictionary it returns
RefreshAccessToken(tokens, refresh_token) ==
    [access_token |-> tokens.access_token,
     refresh_token |-> IF Truthy(tokens.refresh_token) THEN tokens.refresh_token
                       ELSE refresh_token]

\* mutant of RefreshRoute: a refresh grant that failed is issued a second time
RefreshRouteRetry(authorization, x_refresh_token, jwt, userinfo, idp) ==
    LET user == GetCurrentUser(authorization, jwt, userinfo)
        tokens == RefreshToken(idp, x_refresh_token)
    IN  IF user.raised
        THEN [resp |-> user.resp, tokens |-> NoTokens, audit |-> <<>>,
              idp_calls |-> user.idp_calls, exchanges |-> 0]
        ELSE IF ~Truthy(x_refresh_token)
        THEN [resp |-> HTTPException(401, <<"Refresh token required">>),
              tokens |-> NoTokens, audit |-> <<>>,
              idp_calls |-> user.idp_calls, exchanges |-> 0]
        ELSE IF tokens.raised
        THEN [resp |-> HTTPException(401, <<"Failed to refresh token">>),
              tokens |-> NoTokens, audit |-> <<>>,
              idp_calls |-> user.idp_calls \o <<"token", "token">>, exchanges |-> 2]
        ELSE [resp |-> Json, tokens |-> RefreshAccessToken(tokens, x_refresh_token),
              audit |-> <<>>,
              idp_calls |-> user.idp_calls \o <<"token">>, exchanges |-> 1]

\* routes.refresh_token of alphab_logto, with its get_current_user dependency
RefreshRoute(authorization, x_refresh_token, jwt, userinfo, idp) ==
    LET user == GetCurrentUser(authorization, jwt, userinfo)
        tokens == RefreshToken(idp, x_refresh_token)
    IN  IF user.raised
        THEN [resp |-> user.resp, tokens |-> NoTokens, audit |-> <<>>,
              idp_calls |-> user.idp_calls, exchanges |-> 0]
        ELSE IF ~Truthy(x_refresh_token)
        THEN [resp |-> HTTPException(401, <<"Refresh token required">>),
              tokens |-> NoTokens, audit |-> <<>>,
              idp_calls |-> user.idp_calls, exchanges |-> 0]
        ELSE IF tokens.raised
        THEN [resp |-> HTTPException(401, <<"Failed to refresh token">>),
              tokens |-> NoTokens, audit |-> <<>>,
              idp_calls |-> user.idp_calls \o <<"token">>, exchanges |-> 1]
        ELSE [resp |-> Json, tokens |-> RefreshAccessToken(tokens, x_refresh_token),
              audit |-> <<>>,
              idp_calls |-> user.idp_calls \o <<"token">>, exchanges |-> 1]

\* endpoints.auth.refresh_token of backend, its body for a caller that
\* get_current_user has authenticated
RefreshEndpointBackend(x_refresh_token, idp) ==
    IF ~Truthy(x_refresh_token)
    THEN [resp |-> HTTPException(500, <<"Token refresh error: ", "401: ",
                                         "Refresh token required">>),
          tokens |-> NoTokens, idp_calls |-> <<>>, exchanges |-> 0,
          audit |-> <<AuditEvent("token_refresh", FALSE)>>]
    ELSE IF idp.kind = "network_error"
    THEN [resp |-> HTTPException(500, <<"Token refresh error: ">>),
          tokens |-> NoTokens, idp_calls |-> <<"token">>, exchanges |-> 1,
          audit |-> <<AuditEvent("token_refresh", FALSE)>>]
    ELSE IF idp.status # 200
    THEN [resp |-> HTTPException(500, <<"Token refresh error: ", "401: ",
                                         "Failed to refresh token">>),
          tokens |-> NoTokens, idp_calls |-> <<"token">>, exchanges |-> 1,
          audit |-> <<AuditEvent("token_refresh", FALSE),
                      AuditEvent("token_refresh", FALSE)>>]
    ELSE [resp |-> Json, idp_calls |-> <<"token">>, exchanges |-> 1,
          tokens |-> [access_token |-> idp.access_token,
                      refresh_token |-> IF Truthy(GetRefreshToken(idp, None))
                                        THEN idp.refresh_token ELSE x_refresh_token],
          audit |-> <<AuditEvent("token_refresh", TRUE)>>]

\* GET /refresh: routes.refresh_token of alphab_logto (which calls
\* AuthService.refresh_access_token), and endpoints.auth.refresh_token of backend
refresh_token ==
    /\ inv.pc = "done"
    /\ \E impl \in {"alphab_logto", "backend"},
          x_refresh_token \in {None, "", "rt0"} :
       \E authorization \in (IF impl = "alphab_logto" THEN AuthHeaders ELSE {NoHeader}),
          idp \in (IF Truthy(x_refresh_token) THEN RefreshOutcomes ELSE {NoIdp}) :
       \E jwt \in JwtOutcomesFor(impl, authorization),
          userinfo \in UserInfoOutcomesFor(impl, authorization) :
        LET r == IF impl = "alphab_logto"
                 THEN RefreshRoute(authorization, x_refresh_token, jwt, userinfo, idp)
                 ELSE RefreshEndpointBackend(x_refresh_token, idp)
            called(e) == \E k \in 1..Len(r.idp_calls) : r.idp_calls[k] = e
        IN  inv' = [Invocation("refresh_token") EXCEPT
                       !.impl = impl, !.cookie = jar,
                       !.authorization = authorization,
                       !.x_refresh_token = x_refresh_token,
                       !.jwt = jwt, !.userinfo = userinfo,
                       !.idp = IF called("token") THEN idp ELSE NoIdp,
                       !.idp_calls = r.idp_calls, !.resp = r.resp, !.tokens = r.tokens,
                       !.audit = r.audit, !.exchanges = r.exchanges]
    /\ UNCHANGED <<now, requests_per_minute, requests, calls, resetAt, last, gateVars,
                   config, jar, keyVars, pkce>>

NextSession ==
    \/ NextAuth
    \/ handle_signout
    \/ get_user_info
    \/ refresh_token

SpecSession == InitAuth /\ [][NextSession]_vars

(***************************************************************************)
(* The JWKS cache (backend/app/core/auth.py)                               *)
(***************************************************************************)
\* _jwks_cache_ttl = timedelta(hours=24), in seconds
JwksTtl == 86400

\* the steps by which the clock advances between calls
ClockSteps == {43200}

\* a JWKS document without keys, and an empty JSON document
EmptyKeySet == "{keys: []}"
EmptyJson == "{}"

\* what the IdP's JWKS URI may do with a GET
JwksOutcomes ==
    { [kind |-> "response", status |-> 200, body |-> "{keys: [A]}"],
      [kind |-> "response", status |-> 200, body |-> "{keys: [B]}"],
      [kind |-> "response", status |-> 200, body |-> EmptyKeySet],
      [kind |-> "response", status |-> 200, body |-> EmptyJson],
      [kind |-> "response", status |-> 500, body |-> None],
      [kind |-> "network_error", status |-> 0, body |-> None] }

NoJwks == [kind |-> "not_called", status |-> 0, body |-> None]

\* Python truthiness of a parsed JSON document (`not jwks`)
JsonTruthy(body) == body \notin {None, EmptyJson}

\* mutant of CacheValid: a cache of exactly the ttl's age is still used
CacheValidInclusive(cache, time, t) ==
    JsonTruthy(cache) /\ time # NoTime /\ t - time <= JwksTtl

\* get_jwks: `_jwks_cache and _jwks_cache_time and
\* datetime.utcnow() - _jwks_cache_time < _jwks_cache_ttl`
CacheValid(cache, time, t) ==
    JsonTruthy(cache) /\ time # NoTime /\ t - time < JwksTtl

\* get_jwks after the GET: the key set to cache, or HTTPException(500) raised
FetchResult(out) ==
    IF out.kind = "response" /\ out.status = 200 /\ JsonTruthy(out.body)
    THEN [raised |-> FALSE, jwks |-> out.body]
    ELSE [raised |-> TRUE, jwks |-> None]

\* the record of one get_jwks call: its position, the cache it saw on entry,
\* the answer to its GET, the cache just before and after its completion
KeyCall(pc, hit) ==
    [pc |-> pc, hit |-> hit, t |-> now, t_done |-> now,
     seen_cache |-> jwks_cache, seen_time |-> jwks_cache_time,
     out |-> NoJwks, raised |-> FALSE, ret |-> IF hit THEN jwks_cache ELSE None,
     prior_cache |-> jwks_cache, prior_time |-> jwks_cache_time,
     after_cache |-> jwks_cache, after_time |-> jwks_cache_time]

InitJwks ==
    /\ now = 0
    /\ requests_per_minute = 0
    /\ requests = <<>>
    /\ calls = [h \in Identifiers |-> <<>>]
    /\ resetAt = [h \in Identifiers |-> 0]
    /\ last = NoCall
    /\ app = "none"
    /\ proc = <<>>
    /\ config = NoConfig
    /\ jar = None
    /\ inv = NoInvocation
    /\ KeyInit
    /\ pkce = <<>>

\* time passes
TickHours ==
    /\ \E d \in ClockSteps :
        /\ now + d <= MaxClock
        /\ now' = now + d
    /\ UNCHANGED <<requests_per_minute, requests, calls, resetAt, last, gateVars,
                   authVars, keyVars, pkce>>

\* get_jwks(), up to its return of the cached key set or its await of the GET
get_jwks ==
    /\ Len(keycalls) < MaxKeyCalls
    /\ keycalls' = Append(keycalls,
          IF CacheValid(jwks_cache, jwks_cache_time, now)
          THEN KeyCall("done", TRUE) ELSE KeyCall("await_get", FALSE))
    /\ UNCHANGED <<now, requests_per_minute, requests, calls, resetAt, last, gateVars,
                   authVars, jwks_cache, jwks_cache_time, managers, pkce>>

\* the JWKS URI answers (or the transport fails) and get_jwks runs from its
\* await to its return or raise
jwks_response(i) ==
    /\ keycalls[i].pc = "await_get"
    /\ \E out \in JwksOutcomes :
        LET r == FetchResult(out)
        IN  /\ jwks_cache' = IF r.raised THEN jwks_cache ELSE r.jwks
            /\ jwks_cache_time' = IF r.raised THEN jwks_cache_time ELSE now
            /\ keycalls' = [keycalls EXCEPT ![i] =
                  [@ EXCEPT !.pc = "done", !.t_done = now, !.out = out,
                            !.raised = r.raised, !.ret = r.jwks,
                            !.prior_cache = jwks_cache, !.prior_time = jwks_cache_time,
                            !.after_cache = jwks_cache', !.after_time = jwks_cache_time']]
    /\ UNCHANGED <<now, requests_per_minute, requests, calls, resetAt, last, gateVars,
                   authVars, managers, pkce>>

NextJwks ==
    \/ TickHours
    \/ get_jwks
    \/ \E i \in 1..Len(keycalls) : jwks_response(i)

SpecJwks == InitJwks /\ [][NextJwks]_vars

(***************************************************************************)
(* The token validator and the token service, request by request           *)
(* (alphab_logto/dependencies.py, logto_auth/services/token_service.py,    *)
(* alphab_logto/utils/http_client.py).                                     *)
(***************************************************************************)
\* the HttpClientManager objects one run creates, at most
MaxManagers == 3

\* HttpClientManager.__init__: self.client = None
NewManager == [client |-> FALSE]

\* get_http_client_manager(), resolved for every request that depends on the
\* token service: return HttpClientManager()
GetHttpClientManager(ms) == Append(ms, NewManager)

\* HttpClientManager.get_client() of the manager of this request (the last one
\* created): the client is created when self.client is None
GetClient(ms) == [ms EXCEPT ![Len(ms)] = [client |-> TRUE]]

\* the httpx.AsyncClient objects that exist
ClientsCreated(ms) == Cardinality({k \in 1..Len(ms) : ms[k].client})

\* the exception that leaves exchange_code_for_tokens or refresh_token of the
\* token service: its class, the except clause that raised it, its message
TokenServiceError(idp, what) ==
    IF idp.kind = "network_error"
    THEN [cls |-> "TokenError", handler |-> "except httpx.HTTPError",
          msg |-> <<"HTTP error during token ", what>>]
    ELSE IF idp.status # 200
    THEN [cls |-> "TokenError", handler |-> "except Exception",
          msg |-> <<"Error ", what, "Failed to ", what>>]
    ELSE IF idp.access_token = None
    THEN [cls |-> "TokenError", handler |-> "except Exception",
          msg |-> <<"Error ", what, "validation error for TokenResponse">>]
    ELSE NoExc

InitTokenService ==
    /\ now = 0
    /\ requests_per_minute = 0
    /\ requests = <<>>
    /\ calls = [h \in Identifiers |-> <<>>]
    /\ resetAt = [h \in Identifiers |-> 0]
    /\ last = NoCall
    /\ app = "none"
    /\ proc = <<>>
    /\ config = NoConfig
    /\ jar = None
    /\ inv = NoInvocation
    /\ KeyInit
    /\ pkce = <<>>

\* a request to a route that depends on get_current_user: the manager and the
\* token service of the request are built, then the validator runs
get_current_user ==
    /\ Len(managers) < MaxManagers
    /\ \E authorization \in AuthHeaders :
       \E jwt \in JwtOutcomesFor("alphab_logto", authorization),
          userinfo \in UserInfoOutcomesFor("alphab_logto", authorization) :
        LET r == GetCurrentUser(authorization, jwt, userinfo)
            ms == GetHttpClientManager(managers)
        IN  /\ inv' = [Invocation("get_current_user") EXCEPT
                           !.authorization = authorization, !.jwt = jwt,
                           !.userinfo = userinfo, !.idp_calls = r.idp_calls,
                           !.resp = r.resp, !.token_data = r.token_data,
                           !.managers_before = managers]
            /\ managers' = IF r.idp_calls = <<>> THEN ms ELSE GetClient(ms)
    /\ UNCHANGED <<now, requests_per_minute, requests, calls, resetAt, last, gateVars,
                   config, jar, jwks_cache, jwks_cache_time, keycalls, pkce>>

\* TokenService.exchange_code_for_tokens(code, code_verifier, redirect_uri) of
\* the token service of one request
exchange_code_for_tokens ==
    /\ Len(managers) < MaxManagers
    /\ \E idp \in IdpOutcomes :
        /\ inv' = [Invocation("exchange_code_for_tokens") EXCEPT
                       !.impl = "logto_auth", !.code = "code1", !.idp = idp,
                       !.idp_calls = <<"token">>, !.exchanges = 1,
                       !.tokens = [access_token |-> Exchange(idp).access_token,
                                   refresh_token |-> Exchange(idp).refresh_token],
                       !.exc = TokenServiceError(idp, "exchanging code for tokens"),
                       !.managers_before = managers]
        /\ managers' = GetClient(GetHttpClientManager(managers))
    /\ UNCHANGED <<now, requests_per_minute, requests, calls, resetAt, last, gateVars,
                   config, jar, jwks_cache, jwks_cache_time, keycalls, pkce>>

\* TokenService.refresh_token(refresh_token) of the token service of one request
token_service_refresh_token ==
    /\ Len(managers) < MaxManagers
    /\ \E idp \in RefreshOutcomes :
        /\ inv' = [Invocation("TokenService.refresh_token") EXCEPT
                       !.impl = "logto_auth", !.x_refresh_token = "rt0", !.idp = idp,
                       !.idp_calls = <<"token">>, !.exchanges = 1,
                       !.tokens = [access_token |-> RefreshToken(idp, "rt0").access_token,
                                   refresh_token |-> RefreshToken(idp, "rt0").refresh_token],
                       !.exc = TokenServiceError(idp, "refreshing token"),
                       !.managers_before = managers]
        /\ managers' = GetClient(GetHttpClientManager(managers))
    /\ UNCHANGED <<now, requests_per_minute, requests, calls, resetAt, last, gateVars,
                   config, jar, jwks_cache, jwks_cache_time, keycalls, pkce>>

NextTokenService ==
    \/ get_current_user
    \/ exchange_code_for_tokens
    \/ token_service_refresh_token

SpecTokenService == InitTokenService /\ [][NextTokenService]_vars

(***************************************************************************)
(* PKCEUtils (utils/pkce.py).  A string is the sequence of its characters, *)
(* a byte string the sequence of its bytes.                                *)
(***************************************************************************)
\* the PKCEUtils calls one run makes, at most
MaxPkceCalls == 2

\* the alphabet of base64.urlsafe_b64encode, by 6-bit value
UrlSafeAlphabet ==
    << "A", "B", "C", "D", "E", "F", "G", "H", "I", "J", "K", "L", "M",
       "N", "O", "P", "Q", "R", "S", "T", "U", "V", "W", "X", "Y", "Z",
       "a", "b", "c", "d", "e", "f", "g", "h", "i", "j", "k", "l", "m",
       "n", "o", "p", "q", "r", "s", "t", "u", "v", "w", "x", "y", "z",
       "0", "1", "2", "3", "4", "5", "6", "7", "8", "9", "-", "_" >>

\* the alphabet of base64.b64encode, by 6-bit value
StandardAlphabet ==
    << "A", "B", "C", "D", "E", "F", "G", "H", "I", "J", "K", "L", "M",
       "N", "O", "P", "Q", "R", "S", "T", "U", "V", "W", "X", "Y", "Z",
       "a", "b", "c", "d", "e", "f", "g", "h", "i", "j", "k", "l", "m",
       "n", "o", "p", "q", "r", "s", "t", "u", "v", "w", "x", "y", "z",
       "0", "1", "2", "3", "4", "5", "6", "7", "8", "9", "+", "/" >>

\* the unreserved characters a PKCE verifier may use: [A-Za-z0-9-._~]
PkceAlphabet == {UrlSafeAlphabet[i] : i \in 1..64} \cup {".", "~"}

\* ord(c) of an ASCII character
Ord(c) ==
    CASE c = "." -> 46
      [] c = "~" -> 126
      [] c = "=" -> 61
      [] OTHER ->
           LET i == CHOOSE k \in 1..64 : UrlSafeAlphabet[k] = c
           IN  IF i <= 26 THEN 64 + i
               ELSE IF i <= 52 THEN 70 + i
               ELSE IF i <= 62 THEN i - 5
               ELSE IF i = 63 THEN 45 ELSE 95

\* str.encode("utf-8") of an ASCII string
Utf8Encode(chars) == [i \in 1..Len(chars) |-> Ord(chars[i])]

\* mutant of B64Char: the standard alphabet, with + and /
B64CharStandard(v) == StandardAlphabet[v + 1]

\* the character of a 6-bit value in the URL-safe alphabet
B64Char(v) == UrlSafeAlphabet[v + 1]

\* base64.urlsafe_b64encode(bytes): 3 bytes give 4 characters, and the last
\* group of 1 or 2 bytes is padded with "=" to 4 characters
RECURSIVE UrlsafeB64encode(_)
UrlsafeB64encode(bytes) ==
    IF Len(bytes) = 0 THEN <<>>
    ELSE IF Len(bytes) = 1
    THEN LET n == bytes[1] * 16
         IN  <<B64Char(n \div 64), B64Char(n % 64), "=", "=">>
    ELSE IF Len(bytes) = 2
    THEN LET n == (bytes[1] * 256 + bytes[2]) * 4
         IN  <<B64Char(n \div 4096), B64Char((n \div 64) % 64), B64Char(n % 64), "=">>
    ELSE LET n == bytes[1] * 65536 + bytes[2] * 256 + bytes[3]
         IN  <<B64Char(n \div 262144), B64Char((n \div 4096) % 64),
               B64Char((n \div 64) % 64), B64Char(n % 64)>>
             \o UrlsafeB64encode(SubSeq(bytes, 4, Len(bytes)))

\* mutant of StripPadding: the padding is kept
StripPaddingKept(chars) == chars

\* .replace("=", "")
StripPadding(chars) == SelectSeq(chars, LAMBDA c : c # "=")

\* os.urandom(40): 40 bytes (a few of the byte strings it may return: all
\* zero, all 255, bytes whose 6-bit groups are all 62, and a mixed one)
Urandom40 ==
    { [i \in 1..40 |-> 0],
      [i \in 1..40 |-> 255],
      [i \in 1..40 |-> IF i % 3 = 1 THEN 251 ELSE IF i % 3 = 2 THEN 239 ELSE 190],
      [i \in 1..40 |-> (i * 37 + 11) % 256] }

\* hashlib.sha256(data).digest(): a 32-byte digest of any byte string, the
\* empty one included.  The compression function is replaced by a weighted
\* sum; the size of the digest and its dependence on the data alone are kept.
Sha256(data) ==
    LET RECURSIVE Sum(_, _)
        Sum(i, k) == IF i > Len(data) THEN 0
                     ELSE data[i] * (i + k) + Sum(i + 1, k)
    IN  [k \in 1..32 |-> (Len(data) * 7 + k * 31 + Sum(1, k)) % 256]

\* PKCEUtils.generate_code_verifier(), for the random bytes drawn
GenerateCodeVerifier(random) == StripPadding(UrlsafeB64encode(random))

\* an argument of type str, and the argument 123 of type int
StrArg(chars) == [type |-> "str", chars |-> chars]
IntArg == [type |-> "int", chars |-> <<"1", "2", "3">>]

\* mutant of GenerateCodeChallenge: the digest is salted with the number of
\* calls made so far
GenerateCodeChallengeSalted(code_verifier) ==
    [raised |-> None,
     value |-> StripPadding(UrlsafeB64encode(
                   Sha256(Utf8Encode(code_verifier.chars) \o <<Len(pkce)>>)))]

\* PKCEUtils.generate_code_challenge(code_verifier): the challenge, or the
\* exception raised (an int has no encode method)
GenerateCodeChallenge(code_verifier) ==
    IF code_verifier.type # "str"
    THEN [raised |-> "AttributeError", value |-> <<>>]
    ELSE [raised |-> None,
          value |-> StripPadding(UrlsafeB64encode(
                        Sha256(Utf8Encode(code_verifier.chars))))]

\* the arguments generate_code_challenge is called with: the empty string,
\* "123", 123, and the verifiers generate_code_verifier returns
ChallengeArgs ==
    {StrArg(<<>>), StrArg(<<"1", "2", "3">>), IntArg}
    \cup {StrArg(GenerateCodeVerifier(random)) : random \in Urandom40}

InitPkce ==
    /\ now = 0
    /\ requests_per_minute = 0
    /\ requests = <<>>
    /\ calls = [h \in Identifiers |-> <<>>]
    /\ resetAt = [h \in Identifiers |-> 0]
    /\ last = NoCall
    /\ app = "none"
    /\ proc = <<>>
    /\ config = NoConfig
    /\ jar = None
    /\ inv = NoInvocation
    /\ KeyInit
    /\ pkce = <<>>

generate_code_verifier ==
    /\ Len(pkce) < MaxPkceCalls
    /\ \E random \in Urandom40 :
        pkce' = Append(pkce, [op |-> "generate_code_verifier", arg |-> StrArg(<<>>),
                              raised |-> None,
                              value |-> GenerateCodeVerifier(random)])
    /\ UNCHANGED <<now, requests_per_minute, requests, calls, resetAt, last, gateVars,
                   authVars, keyVars>>

generate_code_challenge ==
    /\ Len(pkce) < MaxPkceCalls
    /\ \E code_verifier \in ChallengeArgs :
        pkce' = Append(pkce, [op |-> "generate_code_challenge", arg |-> code_verifier,
                              raised |-> GenerateCodeChallenge(code_verifier).raised,
                              value |-> GenerateCodeChallenge(code_verifier).value])
    /\ UNCHANGED <<now, requests_per_minute, requests, calls, resetAt, last, gateVars,
                   authVars, keyVars>>

NextPkce ==
    \/ generate_code_verifier
    \/ generate_code_challenge

SpecPkce == InitPkce /\ [][NextPkce]_vars

(***************************************************************************)
(* Access control: get_current_user with the request method, has_role, and *)
(* /validate-token, in alphab_logto (dependencies.py, routes.py) and in    *)
(* backend (core/auth.py, endpoints/auth.py).                              *)
(***************************************************************************)
\* raise AuthenticationError(message, status_code=...) of backend: an
\* Exception that carries a status code, not an HTTPException
AuthenticationError(message, status_code) ==
    [kind |-> "authentication_error", status |-> status_code, url |-> <<>>,
     detail |-> message, cookie_op |-> "none", cookie |-> None]

\* the Authorization headers of these requests: those above and "Bearer"
\* with no token
AccessHeaders == AuthHeaders \cup {<<"Bearer">>}

\* get_current_user of alphab_logto for a request with its method
GetCurrentUserRequest(method, authorization, jwt, userinfo) ==
    IF method = "OPTIONS"
    THEN [raised |-> TRUE, resp |-> AuthError(<<"Not authenticated">>),
          token_data |-> NoTokenData, idp_calls |-> <<>>]
    ELSE GetCurrentUser(authorization, jwt, userinfo)

\* CustomOAuth2PasswordBearer.__call__ of backend: None, the token (what
\* follows the first space of the header), or HTTPException raised
CustomOAuth2PasswordBearer(method, authorization) ==
    IF method = "OPTIONS"
    THEN [raised |-> FALSE, resp |-> NoResp, none |-> TRUE, token |-> <<>>]
    ELSE IF authorization = NoHeader
    THEN [raised |-> TRUE, resp |-> HTTPException(401, <<"Not authenticated">>),
          none |-> TRUE, token |-> <<>>]
    ELSE IF Lower(authorization[1]) # "bearer"
    THEN [raised |-> TRUE, resp |-> HTTPException(401, <<"Not authenticated">>),
          none |-> TRUE, token |-> <<>>]
    ELSE [raised |-> FALSE, resp |-> NoResp, none |-> FALSE,
          token |-> Tail(authorization)]

\* get_user_info(token) of backend: the payload, or HTTPException(401) raised
BackendGetUserInfo(out) ==
    IF out.kind = "response" /\ out.status = 200 /\ Truthy(out.sub)
    THEN [raised |-> "none", sub |-> out.sub, roles |-> out.roles,
          exp_key |-> FALSE, exp |-> None]
    ELSE [raised |-> "HTTPException", sub |-> None, roles |-> <<>>,
          exp_key |-> FALSE, exp |-> None]

\* get_current_user of backend, with its oauth2_scheme dependency
BackendGetCurrentUser(method, authorization, userinfo) ==
    LET scheme == CustomOAuth2PasswordBearer(method, authorization)
        payload == BackendGetUserInfo(userinfo)
    IN  IF scheme.raised
        THEN [raised |-> TRUE, resp |-> scheme.resp, token_data |-> NoTokenData,
              idp_calls |-> <<>>]
        ELSE IF scheme.none
        THEN [raised |-> TRUE, resp |-> AuthenticationError(<<"Not authenticated">>, 401),
              token_data |-> NoTokenData, idp_calls |-> <<>>]
        ELSE IF payload.raised # "none"
        THEN [raised |-> TRUE,
              resp |-> HTTPException(401, <<"Failed to get user info from Logto: ">>),
              token_data |-> NoTokenData, idp_calls |-> <<"userinfo">>]
        ELSE [raised |-> FALSE, resp |-> NoResp, token_data |-> TokenDataOf(payload),
              idp_calls |-> <<"userinfo">>]

\* the required roles of the routes, and the callers that reach role_checker
RequiredRoles == {<<>>, <<"admin">>, <<"editor">>, <<"editor", "admin">>}
Callers ==
    [sub : {"user1"}, roles : {<<>>, <<"admin">>, <<"user">>, <<"admin", "user">>},
     exp : {None, "exp1"}]

\* mutant of HasRole: the caller must hold every required role
HasRoleAll(impl, required_roles, token_data) ==
    IF \A i \in 1..Len(required_roles) :
          \E j \in 1..Len(token_data.roles) : required_roles[i] = token_data.roles[j]
    THEN [resp |-> NoResp, token_data |-> token_data]
    ELSE [resp |-> HTTPException(403, <<"Not enough permissions">>),
          token_data |-> NoTokenData]

\* has_role(required_roles), its role_checker: the TokenData returned, or the
\* 403 error raised
HasRole(impl, required_roles, token_data) ==
    IF Len(required_roles) = 0
    THEN [resp |-> NoResp, token_data |-> token_data]
    ELSE IF \E i \in 1..Len(required_roles) :
               \E j \in 1..Len(token_data.roles) :
                   required_roles[i] = token_data.roles[j]
    THEN [resp |-> NoResp, token_data |-> token_data]
    ELSE [resp |-> IF impl = "alphab_logto"
                   THEN HTTPException(403, <<"Not enough permissions">>)
                   ELSE AuthenticationError(<<"Not enough permissions">>, 403),
          token_data |-> NoTokenData]

\* timedelta(minutes=5), in seconds
RenewWindow == 300

\* the seconds a token still has to live when it is presented
Lifetimes == {60, 300, 600}

\* validate_token of routes.py and of endpoints/auth.py: the dictionary
\* returned and the IdP endpoints called (the token's exp is compared with
\* the clock only when the payload has an "exp" key)
ValidateToken(authorization, userinfo, expires_in) ==
    IF authorization = NoHeader
    THEN [valid |-> FALSE, renew |-> FALSE, keys |-> {"valid", "error"},
          idp_calls |-> <<>>]
    ELSE IF Len(authorization) # 2
    THEN [valid |-> FALSE, renew |-> FALSE, keys |-> {"valid", "error"},
          idp_calls |-> <<>>]
    ELSE IF Lower(authorization[1]) # "bearer"
    THEN [valid |-> FALSE, renew |-> FALSE, keys |-> {"valid", "error"},
          idp_calls |-> <<>>]
    ELSE LET payload == GetUserInfoFromToken(userinfo)
         IN  IF payload.raised # "none"
             THEN [valid |-> FALSE, renew |-> FALSE, keys |-> {"valid", "error"},
                   idp_calls |-> <<"userinfo">>]
             ELSE IF payload.exp_key /\ expires_in < RenewWindow
             THEN [valid |-> TRUE, renew |-> TRUE, keys |-> {"valid", "renew"},
                   idp_calls |-> <<"userinfo">>]
             ELSE [valid |-> TRUE, renew |-> FALSE, keys |-> {"valid", "renew"},
                   idp_calls |-> <<"userinfo">>]

InitAccess ==
    /\ now = 0
    /\ requests_per_minute = 0
    /\ requests = <<>>
    /\ calls = [h \in Identifiers |-> <<>>]
    /\ resetAt = [h \in Identifiers |-> 0]
    /\ last = NoCall
    /\ app = "none"
    /\ proc = <<>>
    /\ config = NoConfig
    /\ jar = None
    /\ inv = NoInvocation
    /\ KeyInit
    /\ pkce = <<>>

\* a request reaches get_current_user, of alphab_logto or of backend
authenticate ==
    /\ \E impl \in {"alphab_logto", "backend"}, method \in {"GET", "OPTIONS"},
          authorization \in AccessHeaders :
       \E jwt \in (IF impl = "alphab_logto" /\ method = "GET"
                    THEN JwtOutcomesFor(impl, authorization) ELSE {"not_called"}),
          userinfo \in UserInfoOutcomes \cup {NoUserInfo} :
        LET r == IF impl = "alphab_logto"
                 THEN GetCurrentUserRequest(method, authorization, jwt, userinfo)
                 ELSE BackendGetCurrentUser(method, authorization, userinfo)
        IN  /\ (userinfo = NoUserInfo) <=> (r.idp_calls = <<>>)
            /\ inv' = [Invocation("get_current_user") EXCEPT
                           !.impl = impl, !.method = method,
                           !.authorization = authorization, !.jwt = jwt,
                           !.userinfo = userinfo, !.idp_calls = r.idp_calls,
                           !.resp = r.resp, !.token_data = r.token_data]
    /\ UNCHANGED <<now, requests_per_minute, requests, calls, resetAt, last, gateVars,
                   config, jar, keyVars, pkce>>

\* role_checker of has_role(required_roles) runs for an authenticated caller
has_role ==
    /\ \E impl \in {"alphab_logto", "backend"}, required_roles \in RequiredRoles,
          token_data \in Callers :
        LET r == HasRole(impl, required_roles, token_data)
        IN  inv' = [Invocation("has_role") EXCEPT
                       !.impl = impl, !.required_roles = required_roles,
                       !.caller = token_data, !.resp = r.resp,
                       !.token_data = r.token_data]
    /\ UNCHANGED <<now, requests_per_minute, requests, calls, resetAt, last, gateVars,
                   config, jar, keyVars, pkce>>

\* GET /validate-token, of alphab_logto or of backend
validate_token ==
    /\ \E impl \in {"alphab_logto", "backend"}, authorization \in AuthHeaders :
       \E userinfo \in UserInfoOutcomes \cup {NoUserInfo} :
       \E expires_in \in (IF userinfo.exp = None THEN {0} ELSE Lifetimes) :
        LET r == ValidateToken(authorization, userinfo, expires_in)
        IN  /\ (userinfo = NoUserInfo) <=> (r.idp_calls = <<>>)
            /\ inv' = [Invocation("validate_token") EXCEPT
                           !.impl = impl, !.authorization = authorization,
                           !.userinfo = userinfo, !.expires_in = expires_in,
                           !.idp_calls = r.idp_calls, !.resp = Json,
                           !.validation = [valid |-> r.valid, renew |-> r.renew,
                                           keys |-> r.keys]]
    /\ UNCHANGED <<now, requests_per_minute, requests, calls, resetAt, last, gateVars,
                   config, jar, keyVars, pkce>>

NextAccess ==
    \/ authenticate
    \/ has_role
    \/ validate_token

SpecAccess == InitAccess /\ [][NextAccess]_vars

(***************************************************************************)
(* Claims about the callback handler (checked under SpecAuth).             *)
(***************************************************************************)
\* C9 (as claimed): given a code but no code_verifier cookie, handle_callback
\* fails with a 400-class HTTP error and makes no token-exchange call.
C9_MissingVerifierIs400 ==
    (inv.op = "handle_callback" /\ inv.error \in {None, ""} /\ inv.code \notin {None, ""}
     /\ inv.cookie \in {None, ""}) =>
        /\ inv.resp.kind = "http_exception"
        /\ inv.resp.status >= 400 /\ inv.resp.status < 500
        /\ inv.exchanges = 0

\* C10: whenever the error parameter is given (with or without a code),
\* handle_callback redirects to {frontend}?error=<error>, emits exactly one
\* audit event, which has success = false, does not raise, and makes no
\* token-exchange call.
C10_IdpErrorRedirects ==
    (inv.op = "handle_callback" /\ inv.error \notin {None, ""}) =>
        /\ inv.resp.kind = "redirect"
        /\ inv.resp.url =
              (IF config.cors_origins = <<>> THEN <<"", "/">>
               ELSE <<config.cors_origins[1].scheme, config.cors_origins[1].rest>>)
              \o <<"?error=", inv.error>>
        /\ Len(inv.audit) = 1
        /\ inv.audit[1].success = FALSE
        /\ inv.exchanges = 0
        /\ inv.idp.kind = "not_called"

\* C10 witness: an IdP error arrives together with a code and a verifier cookie
C10_Witness ==
    /\ inv.op = "handle_callback"
    /\ inv.error = "access_denied"
    /\ inv.code = "code1"
    /\ inv.cookie \in Verifiers
    /\ inv.resp.kind = "redirect"
    /\ config.cors_origins # <<>>

\* C11: when error is absent and code is absent or empty, handle_callback
\* fails with HTTP 400 "No authorization code provided", without reading the
\* code_verifier cookie and without any token-exchange call.
C11_MissingCodeIs400 ==
    (inv.op = "handle_callback" /\ inv.error \in {None, ""} /\ inv.code \in {None, ""}) =>
        /\ inv.pc = "done"
        /\ inv.resp.kind = "http_exception"
        /\ inv.resp.status = 400
        /\ inv.resp.detail = <<"No authorization code provided">>
        /\ ~inv.cookie_read
        /\ inv.exchanges = 0
        /\ inv.idp_calls = <<>>
        /\ inv.idp.kind = "not_called"

\* C11 witness: an empty code arrives while the browser holds a verifier cookie
C11_Witness ==
    /\ inv.op = "handle_callback"
    /\ inv.error = None
    /\ inv.code = ""
    /\ inv.cookie \in Verifiers
    /\ inv.resp.status = 400
    /\ ~inv.cookie_read

\* the token exchange of this invocation was made and failed
ExchangeFailed ==
    /\ inv.op = "handle_callback"
    /\ inv.pc = "done"
    /\ inv.idp.kind # "not_called"
    /\ \/ inv.idp.kind = "network_error"
       \/ inv.idp.status # 200
       \/ inv.idp.access_token = None

\* C12: when code and verifier cookie are present and the token exchange
\* fails (non-200 answer, network failure, unusable answer), handle_callback
\* emits one failed authentication audit event and raises HTTP 500; it
\* produces no redirect and no token.
C12_ExchangeFailureIs500 ==
    ExchangeFailed =>
        /\ Truthy(inv.code) /\ Truthy(inv.cookie)
        /\ inv.resp.kind = "http_exception"
        /\ inv.resp.status = 500
        /\ inv.audit = <<AuditEvent("authentication", FALSE)>>
        /\ inv.exchanges = 1

\* C12 witness: the IdP answered 400 to the exchange of a code with its verifier
C12_Witness ==
    /\ ExchangeFailed
    /\ inv.idp.kind = "response"
    /\ inv.idp.status = 400
    /\ inv.resp.status = 500
    /\ inv.cookie \in Verifiers

\* the response is the redirect to the frontend callback that carries a token
TokenRedirect(resp) ==
    /\ resp.kind = "redirect"
    /\ Len(resp.url) >= 4
    /\ resp.url[3] = "/auth/callback?token="

\* the state of the sign-in flow, read off the last request of the flow
FlowState ==
    CASE inv.op = "none" -> "UNAUTHENTICATED"
      [] inv.op = "initiate_signin" -> "SIGNIN_INITIATED"
      [] inv.op = "handle_callback" /\ inv.pc = "await_exchange" -> "CALLBACK_PENDING"
      [] inv.op = "handle_callback" /\ inv.pc = "done" /\ TokenRedirect(inv.resp)
            -> "AUTHENTICATED"
      [] inv.op = "handle_callback" /\ inv.pc = "done" /\ ~TokenRedirect(inv.resp)
            -> "FAILED"
      [] OTHER -> "NOT_A_FLOW"

\* AUTHENTICATED only with no error, a non-empty code, a verifier cookie that
\* was read, and a token exchange answered with HTTP 200 and an access token
AuthenticatedOnlyAfterExchange ==
    FlowState = "AUTHENTICATED" =>
        /\ ~Truthy(inv.error)
        /\ Truthy(inv.code)
        /\ inv.cookie \in Verifiers
        /\ inv.cookie_read
        /\ inv.exchanges = 1
        /\ inv.idp.kind = "response"
        /\ inv.idp.status = 200
        /\ Truthy(inv.idp.access_token)
        /\ inv.resp.url[4] = inv.idp.access_token

\* the moves of the flow: the exchange is awaited only for a browser that
\* holds the verifier of an earlier sign-in, AUTHENTICATED is entered only from
\* CALLBACK_PENDING, CALLBACK_PENDING is left only to AUTHENTICATED or FAILED,
\* and a request that ended in AUTHENTICATED or FAILED is not continued
FlowMoves ==
    /\ FlowState \in {"UNAUTHENTICATED", "SIGNIN_INITIATED", "CALLBACK_PENDING",
                      "AUTHENTICATED", "FAILED"}
    /\ (FlowState = "UNAUTHENTICATED" /\ inv' # inv) =>
            FlowState' \in {"SIGNIN_INITIATED", "FAILED"}
    /\ (FlowState' = "CALLBACK_PENDING" /\ inv' # inv) =>
            /\ FlowState \in {"SIGNIN_INITIATED", "FAILED"}
            /\ jar \in Verifiers
    /\ (FlowState' = "AUTHENTICATED" /\ inv' # inv) => FlowState = "CALLBACK_PENDING"
    /\ FlowState = "CALLBACK_PENDING" =>
            FlowState' \in {"CALLBACK_PENDING", "AUTHENTICATED", "FAILED"}
    /\ FlowState \in {"AUTHENTICATED", "FAILED"} =>
            /\ inv.pc = "done"
            /\ ~exchange_returns

\* C13: the sign-in flow moves only along UNAUTHENTICATED -> SIGNIN_INITIATED
\* -> CALLBACK_PENDING -> AUTHENTICATED, or to FAILED; AUTHENTICATED (the
\* redirect carrying the access token) is reached only after a callback with
\* no error, a non-empty code, a verifier cookie and an exchange answered with
\* HTTP 200; a request that reached AUTHENTICATED or FAILED has ended.
C13_SigninStateMachine ==
    /\ []AuthenticatedOnlyAfterExchange
    /\ [][FlowMoves]_vars

\* C13 witness: a flow reached AUTHENTICATED, its redirect carrying both tokens
C13_Witness ==
    /\ FlowState = "AUTHENTICATED"
    /\ inv.idp.refresh_token = "rt1"
    /\ Len(inv.resp.url) = 6
    /\ jar = None

\* C14 (as claimed): after every processed callback, successful or failed, the
\* browser no longer holds the code_verifier cookie of that sign-in attempt.
C14_VerifierDestroyedAfterCallback ==
    (inv.op = "handle_callback" /\ inv.pc = "done" /\ Truthy(inv.cookie)) =>
        jar # inv.cookie

(***************************************************************************)
(* Claims about sign-out, profile and refresh (checked under SpecSession). *)
(***************************************************************************)
\* AuthService.refresh_access_token was invoked by the last request
RefreshAccessTokenInvoked ==
    inv.op = "refresh_token" /\ inv.impl = "alphab_logto" /\ inv.exchanges = 1

\* C15 (as claimed): each invocation of initiate_signin, handle_callback,
\* handle_signout and refresh_access_token emits exactly one audit event.
C15_OneAuditEventPerInvocation ==
    (\/ inv.op \in {"initiate_signin", "handle_signout"}
     \/ inv.op = "handle_callback" /\ inv.pc = "done"
     \/ RefreshAccessTokenInvoked) =>
        Len(inv.audit) = 1

\* C16: for every request handle_signout returns the 303 redirect to the
\* frontend and does not raise; a failure while extracting sub is swallowed
\* (one signout audit event is emitted either way), and the only call it
\* may make to the IdP is the user-info lookup, never a revocation.
C16_SignoutAlwaysRedirects ==
    inv.op = "handle_signout" =>
        /\ inv.resp.kind = "redirect"
        /\ inv.resp.status = 303
        /\ inv.resp.url =
              (IF config.cors_origins = <<>> THEN <<"", "/">>
               ELSE <<config.cors_origins[1].scheme, config.cors_origins[1].rest>>)
        /\ \A k \in 1..Len(inv.idp_calls) : inv.idp_calls[k] = "userinfo"
        /\ Len(inv.audit) = 1
        /\ inv.audit[1].event_type = "signout"

\* C16 witness: the header cannot be split into scheme and token, the
\* ValueError is caught and the redirect is returned
C16_Witness ==
    /\ inv.op = "handle_signout"
    /\ inv.impl = "alphab_logto"
    /\ inv.authorization = <<"garbage">>
    /\ inv.audit = <<AuditEvent("signout", FALSE)>>
    /\ inv.resp.status = 303

\* C17 (as claimed): when the user-info fetch fails, get_user_info returns a
\* UserInfo with sub and roles of token_data and does not raise.
C17_UserInfoFallsBack ==
    (inv.op = "get_user_info" /\ inv.userinfo.kind # "not_called"
     /\ GetUserInfoFromToken(inv.userinfo).raised # "none") =>
        /\ inv.resp.kind = "json"
        /\ inv.user = BasicUserInfo(TokenData)

\* C18 (as claimed): a refresh request without X-Refresh-Token is rejected
\* with HTTP 401 and no call to the IdP (token endpoint, user-info) is made
\* for it.
C18_MissingRefreshTokenNoNetwork ==
    (inv.op = "refresh_token" /\ inv.impl = "alphab_logto"
     /\ ~Truthy(inv.x_refresh_token)) =>
        /\ inv.resp.kind = "http_exception"
        /\ inv.resp.status = 401
        /\ inv.idp_calls = <<>>

\* C19: every successful refresh returns a non-empty refresh_token: the one
\* of the IdP when it sent a non-empty one, the caller's original when the IdP
\* omitted it or sent it null or empty.
C19_RefreshTokenContinuity ==
    (inv.op = "refresh_token" /\ inv.resp.kind = "json") =>
        /\ Truthy(inv.tokens.refresh_token)
        /\ inv.tokens.refresh_token =
              (IF inv.idp.refresh_token \in {Omitted, None, ""}
               THEN inv.x_refresh_token ELSE inv.idp.refresh_token)
        /\ inv.tokens.access_token = inv.idp.access_token

\* C19 witness: the IdP answered 200 with a null refresh_token and the
\* caller's original refresh token is returned
C19_Witness ==
    /\ inv.op = "refresh_token"
    /\ inv.impl = "alphab_logto"
    /\ inv.resp.kind = "json"
    /\ inv.idp.refresh_token = None
    /\ inv.x_refresh_token = "rt0"
    /\ inv.tokens.refresh_token = "rt0"

\* C20 (as claimed): a refresh that the token endpoint answers with a
\* non-200 status is surfaced to the client as HTTP 401.
C20_FailedRefreshIs401 ==
    (inv.op = "refresh_token" /\ inv.idp.kind = "response" /\ inv.idp.status # 200) =>
        /\ inv.resp.kind = "http_exception"
        /\ inv.resp.status = 401

(***************************************************************************)
(* Claims about the JWKS cache (checked under SpecJwks).                   *)
(***************************************************************************)
\* the get_jwks calls that have returned or raised
DoneKeyCalls == {k \in 1..Len(keycalls) : keycalls[k].pc = "done"}

\* C26: a get_jwks call made less than 24 hours after the successful fetch
\* that filled the cache returns the cached key set and issues no upstream
\* request; a call on a cold cache or 24 hours or more after the fetch issues
\* one GET and, when it succeeds, replaces the cached key set and its fetch
\* time together.
C26_JwksCacheHit ==
    /\ (jwks_cache = None) <=> (jwks_cache_time = NoTime)
    /\ \A k \in 1..Len(keycalls) :
        LET c == keycalls[k]
        IN  /\ (c.seen_time # NoTime /\ c.t - c.seen_time < 86400) =>
                  /\ c.hit /\ c.pc = "done"
                  /\ c.ret = c.seen_cache
                  /\ c.out.kind = "not_called"
                  /\ c.after_cache = c.seen_cache /\ c.after_time = c.seen_time
            /\ (c.seen_time = NoTime \/ c.t - c.seen_time >= 86400) =>
                  /\ ~c.hit
                  /\ c.pc = "done" => c.out.kind # "not_called"
                  /\ (c.pc = "done" /\ ~c.raised) =>
                        /\ c.ret = c.out.body
                        /\ c.after_cache = c.out.body
                        /\ c.after_time = c.t_done

\* C26 witness: a call 12 hours after a successful fetch was served from the
\* cache, and the cache was filled by a fetch on a cold cache
C26_Witness ==
    /\ Len(keycalls) = 2
    /\ ~keycalls[1].hit /\ keycalls[1].seen_time = NoTime
    /\ keycalls[1].pc = "done" /\ ~keycalls[1].raised
    /\ keycalls[2].hit
    /\ keycalls[2].t - keycalls[2].seen_time = 43200
    /\ keycalls[2].ret = "{keys: [A]}"

\* C27 (as claimed): when the upstream fetch fails or returns an empty key
\* set, get_jwks raises and the cached key set and its fetch time stay as
\* they were.
C27_FetchFailurePreservesCache ==
    \A k \in DoneKeyCalls :
        LET c == keycalls[k]
        IN  (~c.hit /\ (\/ c.out.kind = "network_error"
                        \/ c.out.status # 200
                        \/ c.out.body \in {EmptyKeySet, EmptyJson})) =>
                /\ c.raised
                /\ c.after_cache = c.prior_cache
                /\ c.after_time = c.prior_time

\* C28 (as claimed): concurrent get_jwks calls on a cold or expired cache
\* share one upstream request: at no time are two GETs to the JWKS URI in
\* flight.
C28_JwksSingleFlight ==
    Cardinality({k \in 1..Len(keycalls) : keycalls[k].pc = "await_get"}) <= 1

(***************************************************************************)
(* Claims about retries (checked under SpecSession).                       *)
(***************************************************************************)
\* the call to the token endpoint of this invocation was made and failed
TokenCallFailed ==
    /\ inv.pc = "done"
    /\ inv.idp.kind # "not_called"
    /\ \/ inv.idp.kind = "network_error"
       \/ inv.idp.status # 200

JwtPath ==
    /\ inv.op = "get_current_user"
    /\ IsBearer(inv.authorization)
    /\ IsJwtFormat(inv.authorization[2])

\* get_current_user ran on a bearer token that is not of JWT format
OpaquePath ==
    /\ inv.op = "get_current_user"
    /\ IsBearer(inv.authorization)
    /\ ~IsJwtFormat(inv.authorization[2])

\* get_current_user returned a TokenData
Returned == inv.op = "get_current_user" /\ inv.resp = NoResp

\* C22: a bearer token of JWT format is validated locally: no IdP endpoint is
\* called and no HTTP client is created for the request; when the local
\* validation fails or the payload has no sub, get_current_user raises a 401
\* error and returns no identity.
C22_JwtPathIsLocal ==
    JwtPath =>
        /\ inv.idp_calls = <<>>
        /\ inv.userinfo = NoUserInfo
        /\ ClientsCreated(managers) = ClientsCreated(inv.managers_before)
        /\ (ValidateJwt(inv.jwt).raised # "none" \/ ~Truthy(ValidateJwt(inv.jwt).sub)) =>
              /\ inv.resp.kind = "http_exception"
              /\ inv.resp.status = 401
              /\ inv.token_data = NoTokenData

\* C22 witness: the local validation of a JWT raised TokenError
C22_Witness ==
    /\ JwtPath
    /\ inv.jwt = "TokenError"
    /\ inv.resp.status = 401
    /\ inv.idp_calls = <<>>

\* C23: a bearer token not of JWT format causes exactly one call to the
\* user-info endpoint; an answer without a non-empty sub, a non-200 answer or a
\* transport failure makes get_current_user raise a 401 error and return no
\* identity.
C23_OpaquePathOneLookup ==
    OpaquePath =>
        /\ inv.idp_calls = <<"userinfo">>
        /\ inv.userinfo.kind # "not_called"
        /\ (\/ inv.userinfo.kind = "network_error"
            \/ inv.userinfo.status # 200
            \/ ~Truthy(inv.userinfo.sub)) =>
              /\ inv.resp.kind = "http_exception"
              /\ inv.resp.status = 401
              /\ inv.token_data = NoTokenData
        /\ Returned => inv.token_data.sub = inv.userinfo.sub

\* C23 witness: the user-info endpoint answered 200 without a sub
C23_Witness ==
    /\ OpaquePath
    /\ inv.userinfo.kind = "response" /\ inv.userinfo.status = 200
    /\ inv.userinfo.sub = None
    /\ inv.resp.status = 401

\* the claims {sub, roles, exp} the validated token stands for
UnderlyingClaims ==
    IF JwtPath
    THEN [sub |-> ValidateJwt(inv.jwt).sub, roles |-> ValidateJwt(inv.jwt).roles,
          exp |-> ValidateJwt(inv.jwt).exp]
    ELSE [sub |-> inv.userinfo.sub, roles |-> inv.userinfo.roles,
          exp |-> inv.userinfo.exp]

\* C24 (as claimed): whenever get_current_user returns, on either path, the
\* TokenData has a non-empty sub and is built from the claims {sub, roles, exp}
\* in the same way, so that equal claims give an identical TokenData.
C24_NormalizedIdentity ==
    Returned =>
        /\ Truthy(inv.token_data.sub)
        /\ inv.token_data = UnderlyingClaims

\* C25 (as claimed): a successful validation writes no state: the HTTP
\* clients that exist, the JWKS cache and the rate-limiter windows are as they
\* were before the call.
C25_ValidationWritesNothing ==
    Returned =>
        /\ ClientsCreated(managers) = ClientsCreated(inv.managers_before)
        /\ jwks_cache = None /\ jwks_cache_time = NoTime
        /\ requests = <<>>

\* a method of the token service was called and has ended
TokenServiceCalled ==
    inv.op \in {"exchange_code_for_tokens", "TokenService.refresh_token"}

\* C29 (as claimed): exchange_code_for_tokens and refresh_token of the token
\* service report a non-200 answer at the status check, never through the
\* handler of unexpected errors, and report a network failure with an
\* exception of another class than the one a non-200 answer gets.
C29_FailureTaxonomy ==
    TokenServiceCalled =>
        /\ (inv.idp.kind = "response" /\ inv.idp.status # 200) =>
              /\ inv.exc.cls # None
              /\ inv.exc.handler # "except Exception"
        /\ inv.idp.kind = "network_error" =>
              /\ inv.exc.cls # None
              /\ \A o \in IdpOutcomes :
                    (o.kind = "response" /\ o.status # 200) =>
                        TokenServiceError(o, "exchanging code for tokens").cls
                            # inv.exc.cls

\* C30 (as claimed): across any sequence of requests at most one HTTP client
\* is ever created.
C30_SharedTransport ==
    ClientsCreated(managers) <= 1

(***************************************************************************)
(* Claims about reset and recovery of the rate limiter (checked under      *)
(* SpecLimiter).                                                           *)
(***************************************************************************)
\* C34: reset(id) empties the window of id and leaves the window of every
\* other identifier as it was, reset(None) empties every window; after a
\* reset covering an identifier and before its next is_rate_limited call,
\* get_remaining_requests returns the threshold, and for a threshold of at
\* least 1 that next is_rate_limited call returns false.
C34_ResetClears ==
    /\ last.op = "reset" =>
          \A h \in Identifiers :
              Lookup(requests, h) =
                  IF last.id = None \/ last.id = h THEN <<>>
                  ELSE Lookup(last.before, h)
    /\ \A h \in Hosts :
          /\ (last.op = "get_remaining_requests" /\ last.id = h
              /\ resetAt[h] = Len(calls[h])) =>
                last.ret = requests_per_minute
          /\ (last.op = "is_rate_limited" /\ last.id = h
              /\ resetAt[h] = Len(calls[h]) - 1 /\ requests_per_minute >= 1) =>
                last.ret = FALSE

\* C34 witness: an identifier that was being rejected is accepted by the first
\* call after its reset, at the same time
C34_Witness ==
    /\ last.op = "is_rate_limited"
    /\ resetAt[last.id] = Len(calls[last.id]) - 1
    /\ resetAt[last.id] >= 1
    /\ calls[last.id][resetAt[last.id]].ret = TRUE
    /\ calls[last.id][resetAt[last.id]].t = last.t
    /\ last.ret = FALSE

\* C37: a rejected call records nothing (a window never holds more entries
\* than calls were accepted since the last reset); an is_rate_limited call
\* made when the oldest recorded request is 60 seconds old or older returns
\* false; and get_remaining_requests returns the full threshold when no call
\* was accepted in the trailing 60 seconds.
C37_Recovery ==
    /\ \A h \in Hosts :
          Len(Lookup(requests, h)) <=
              Cardinality({i \in Accepted(h) : i > resetAt[h]})
    /\ (last.op = "is_rate_limited" /\ Lookup(last.before, last.id) # <<>>
        /\ Lookup(last.before, last.id)[1] <= last.t - 60) =>
          last.ret = FALSE
    /\ (last.op = "get_remaining_requests"
        /\ AcceptedIn(last.id, 0, last.t) = {}) =>
          last.ret = requests_per_minute

\* C37 witness: an identifier with a full window that was rejected is
\* accepted again exactly 60 seconds after its oldest accepted request
C37_Witness ==
    /\ last.op = "is_rate_limited"
    /\ Len(Lookup(last.before, last.id)) = requests_per_minute
    /\ requests_per_minute >= 1
    /\ Lookup(last.before, last.id)[1] = last.t - 60
    /\ \E i \in 1..Len(calls[last.id]) : calls[last.id][i].ret = TRUE
    /\ last.ret = FALSE

(***************************************************************************)
(* Claims about PKCEUtils (checked under SpecPkce).                        *)
(***************************************************************************)
\* a string of 43 to 128 characters of the PKCE alphabet (which has no "=")
ValidPkce(chars) ==
    /\ Len(chars) >= 43 /\ Len(chars) <= 128
    /\ \A i \in 1..Len(chars) : chars[i] \in PkceAlphabet

\* the generate_code_challenge calls made
ChallengeCalls == {k \in 1..Len(pkce) : pkce[k].op = "generate_code_challenge"}

\* C31 (as claimed): generate_code_challenge raises an error when its argument
\* is empty or is not a string of 43 to 128 characters of the PKCE alphabet,
\* and returns a challenge only for a valid verifier.
C31_InvalidVerifierRejected ==
    \A k \in ChallengeCalls :
        (pkce[k].arg.type = "str" /\ ValidPkce(pkce[k].arg.chars))
            <=> (pkce[k].raised = None)

\* C32: every verifier generate_code_verifier returns has 43 to 128
\* characters, all of [A-Za-z0-9-._~], and no "="; so has every challenge
\* generate_code_challenge returns for such a verifier.
C32_VerifierAndChallengeWellFormed ==
    \A k \in 1..Len(pkce) :
        /\ pkce[k].op = "generate_code_verifier" =>
              /\ pkce[k].raised = None
              /\ ValidPkce(pkce[k].value)
              /\ \A i \in 1..Len(pkce[k].value) : pkce[k].value[i] # "="
        /\ (pkce[k].op = "generate_code_challenge" /\ pkce[k].arg.type = "str"
            /\ ValidPkce(pkce[k].arg.chars)) =>
              /\ pkce[k].raised = None
              /\ ValidPkce(pkce[k].value)
              /\ \A i \in 1..Len(pkce[k].value) : pkce[k].value[i] # "="

\* C32 witness: a verifier of 54 characters, all of them "-", was generated
\* and a challenge of 43 characters was derived from it
C32_Witness ==
    /\ Len(pkce) = 2
    /\ pkce[1].op = "generate_code_verifier"
    /\ Len(pkce[1].value) = 54
    /\ pkce[1].value[1] = "-"
    /\ pkce[2].op = "generate_code_challenge"
    /\ pkce[2].arg = StrArg(pkce[1].value)
    /\ Len(pkce[2].value) = 43

C38_PkceBinding ==
    /\ inv.op = "initiate_signin" =>
          /\ inv.resp.cookie_op = "set"
          /\ inv.resp.cookie \in Verifiers
          /\ inv.resp.url[2] = "code_challenge="
          /\ inv.resp.url[3] = CodeChallenge(inv.resp.cookie)
          /\ inv.resp.url[4] = "code_challenge_method=S256"
    /\ (inv.op = "handle_callback" /\ inv.exchanges = 1) =>
          /\ inv.exchange_req.code = inv.code
          /\ inv.exchange_req.code_verifier = inv.cookie
          /\ inv.exchange_req.redirect_uri = config.redirect_uri
          /\ Truthy(inv.exchange_req.code_verifier)
    /\ (inv.op = "handle_callback" /\ inv.exchanges = 0) =>
          inv.exchange_req = NoExchangeRequest

\* C38 witness: the callback of a sign-in sent the second verifier, the one
\* its cookie held, and the exchange succeeded
C38_Witness ==
    /\ inv.op = "handle_callback"
    /\ inv.pc = "done"
    /\ inv.exchanges = 1
    /\ inv.exchange_req.code_verifier = "verifier2"
    /\ inv.cookie = "verifier2"
    /\ inv.resp.kind = "redirect"

(***************************************************************************)
(* Claims about the consistency of the JWKS cache (checked under SpecJwks).*)
(***************************************************************************)
\* C39 (as claimed): in every state, also while fetches are in flight and
\* get_jwks calls interleave, the cached key set is set exactly when its
\* fetch time is set, the cached key set is not empty, and no call moves the
\* fetch time backwards.
C39_JwksCacheConsistent ==
    /\ (jwks_cache = None) <=> (jwks_cache_time = NoTime)
    /\ jwks_cache \notin {EmptyKeySet, EmptyJson}
    /\ \A k \in DoneKeyCalls :
          /\ keycalls[k].after_time >= keycalls[k].prior_time
          /\ keycalls[k].after_cache \notin {EmptyKeySet, EmptyJson}

(***************************************************************************)
(* Claims about access control (checked under SpecAccess).                 *)
(***************************************************************************)
\* the elements of a list
Elems(list) == {list[i] : i \in 1..Len(list)}

\* C35: role_checker returns the TokenData of the caller unchanged when
\* required_roles is empty or the caller holds at least one required role,
\* and otherwise raises a 403 error "Not enough permissions" and returns
\* nothing.
C35_RoleCheck ==
    inv.op = "has_role" =>
        IF inv.required_roles = <<>>
           \/ Elems(inv.required_roles) \cap Elems(inv.caller.roles) # {}
        THEN /\ inv.resp = NoResp
             /\ inv.token_data = inv.caller
        ELSE /\ inv.resp.status = 403
             /\ inv.resp.detail = <<"Not enough permissions">>
             /\ inv.token_data = NoTokenData

\* C35 witness: a caller with the role admin passed a check that requires
\* editor or admin
C35_Witness ==
    /\ inv.op = "has_role"
    /\ inv.required_roles = <<"editor", "admin">>
    /\ inv.caller.roles = <<"admin">>
    /\ inv.token_data = inv.caller

\* the token presented to /validate-token is valid at the IdP
ValidTokenPresented ==
    /\ IsBearer(inv.authorization)
    /\ inv.userinfo.kind = "response" /\ inv.userinfo.status = 200
    /\ Truthy(inv.userinfo.sub)

\* C36 (as claimed): /validate-token never raises; for a valid token it
\* answers valid=true with renew=true exactly when the token expires in less
\* than 5 minutes, and for an invalid token it answers valid=false.
C36_RenewalSignal ==
    inv.op = "validate_token" =>
        /\ inv.resp = Json
        /\ inv.validation.valid = ValidTokenPresented
        /\ ValidTokenPresented =>
              (inv.validation.renew =
                  (inv.userinfo.exp # None /\ inv.expires_in < 300))

\* the request carries no usable bearer credential
Unauthenticated ==
    \/ inv.method = "OPTIONS"
    \/ inv.authorization = NoHeader
    \/ Len(inv.authorization) # 2
    \/ Lower(inv.authorization[1]) # "bearer"

\* C40 (as claimed): for an OPTIONS request, a missing Authorization header,
\* a header that does not split into exactly two parts or a scheme other than
\* bearer, get_current_user fails with 401 and calls no IdP endpoint.
C40_UnauthenticatedRejectedLocally ==
    (inv.op = "get_current_user" /\ Unauthenticated) =>
        /\ inv.resp.status = 401
        /\ inv.token_data = NoTokenData
        /\ inv.idp_calls = <<>>
        /\ inv.userinfo = NoUserInfo /\ inv.jwt = "not_called"

====
